---- MODULE Spec2Model ----
(***************************************************************************)
(* A model of the three stateful components of the voicecode backend:      *)
(*   - utils/rate_limiter.py   SimpleRateLimiter (sliding window limiter)   *)
(*   - models/session.py       the in-memory session store                  *)
(*   - routers/voice.py        the voice relay (WebSocket proxy)            *)
(* Time is the wall clock read by datetime.now(); it is counted in ticks,   *)
(* TicksPerSecond ticks to the second, and never runs backwards.  Two reads *)
(* of the clock may return the same value.                                  *)
(***************************************************************************)
EXTENDS Integers, Sequences, FiniteSets, TLC

(***************************************************************************)
(* Bounds of the model.                                                     *)
(***************************************************************************)
\* Sub-second resolution of the clock (ticks per second).
TicksPerSecond == 2
\* Ticks the bounded clock may run past one full day.
MaxExtraTicks == 4
\* Largest max_requests a caller passes (0 .. MaxRequests).
MaxRequests == 2
\* The short window, in seconds, a caller passes.
ShortWindow == 1
\* self.cleanup_threshold, scaled down from the default 100 of
\* rate_limiter.py line 53 (the attribute is configurable): the purge scan
\* runs every CleanupThreshold admitted checks.
CleanupThreshold == 3

\* Seconds of a day: datetime.timedelta normalises to (days, seconds,
\* microseconds) with 0 <= seconds < 86400.
SecondsPerDay == 86400

DayTicks == SecondsPerDay * TicksPerSecond

Identifiers == {"a", "b"}
WindowChoices == {0, ShortWindow, SecondsPerDay + ShortWindow}

VARIABLES
    now,            \* the wall clock, in ticks
    \* ---- SimpleRateLimiter
    requests,       \* self.requests: identifier -> list of timestamps
    request_count,  \* self.request_count
    max_requests,   \* the max_requests the callers of check_rate_limit pass
    window_seconds, \* the window_seconds the callers pass
    lim_ret,        \* the last call of check_rate_limit and what it returned
    admitted,       \* history: per identifier the times of the admitted checks
                    \* that can still lie inside a window
    \* ---- session store
    sessions,       \* the sessions dict: session_id -> CodeSession
    max_messages,   \* the max_messages the callers of add_message pass
    appended,       \* history: per session_id the messages appended to the
                    \* session stored under it, since it was created
    swept,          \* what the last call of cleanup_old_sessions returned
    \* ---- voice relay
    configured,         \* elevenlabs_service.api_key and .agent_id are both set
    active_connections, \* the registry: connection_id -> connection info
    conn,               \* per relay connection: the position of voice_stream and
                        \* of its two forwarding tasks, its locals, both
                        \* WebSockets and the frames in flight
    \* ---- request handlers
    chat,           \* per chat request: the position of its handler and its locals
    bumped,         \* history: per session_id the number of times a chat request
                    \* has incremented its message_count
    response        \* the last call of a handler of routers/context.py and
                    \* what it answered

limiter_vars == <<requests, request_count, max_requests, window_seconds, lim_ret, admitted>>

store_vars == <<sessions, max_messages, appended, swept>>

relay_vars == <<configured, active_connections, conn>>

handler_vars == <<chat, bumped, response>>

vars == <<now, limiter_vars, store_vars, relay_vars, handler_vars>>

(***************************************************************************)
(* Helpers on sequences.                                                    *)
(***************************************************************************)
RECURSIVE SeqMin(_)
SeqMin(s) == IF Len(s) = 1 THEN s[1]
             ELSE LET m == SeqMin(Tail(s)) IN IF s[1] < m THEN s[1] ELSE m

RECURSIVE SeqMax(_)
SeqMax(s) == IF Len(s) = 1 THEN s[1]
             ELSE LET m == SeqMax(Tail(s)) IN IF s[1] > m THEN s[1] ELSE m

Elems(s) == {s[i] : i \in 1..Len(s)}

\* d[k] = v, creating the key when absent (a Python dict assignment).
DictSet(d, k, v) == [x \in (DOMAIN d) \cup {k} |-> IF x = k THEN v ELSE d[x]]

\* del d[k]
DictDel(d, k) == [x \in (DOMAIN d) \ {k} |-> d[x]]

(***************************************************************************)
(* SimpleRateLimiter                                                        *)
(***************************************************************************)
\* timedelta(seconds=window_seconds), in ticks
WindowTicks(window) == window * TicksPerSecond

\* the list comprehension of check_rate_limit: the timestamps inside the window
RecentKeepingBoundary(request_times, window_start) ==
    SelectSeq(request_times, LAMBDA t : t >= window_start)

RecentRequests(request_times, window_start) ==
    SelectSeq(request_times, LAMBDA t : t > window_start)

\* timedelta.seconds: the seconds field of the normalised timedelta, which
\* leaves the days out and drops the microseconds
TimedeltaSeconds(delta) == (delta % DayTicks) \div TicksPerSecond

\* retry_after of a rejected check
RetryAfter(oldest_request, window, t) ==
    TimedeltaSeconds(oldest_request + WindowTicks(window) - t)

\* _cleanup_old_entries: drop the identifiers with no timestamp, or whose
\* newest timestamp is before cutoff_time
CleanupOldEntries(reqs, cutoff_time) ==
    LET to_remove == {i \in DOMAIN reqs :
                         reqs[i] = <<>> \/ SeqMax(reqs[i]) < cutoff_time}
    IN  [i \in (DOMAIN reqs) \ to_remove |-> reqs[i]]

\* The record of a rejected check: nothing is appended.
RejectedRecordAppending(recent, t) == Append(recent, t)

RejectedRecord(recent, t) == recent

\* The record of an admitted check: self.requests[identifier].append(now)
AdmittedRecordOverwriting(recent, t) == <<t>>

AdmittedRecord(recent, t) == Append(recent, t)

\* check_rate_limit(identifier, max, window) called at time t on the limiter
\* state (reqs, count): the new limiter state and the outcome.  min() of an
\* empty list raises ValueError.
CheckRateLimit(reqs, count, identifier, max, window, t) ==
    LET window_start  == t - WindowTicks(window)
        request_times == IF identifier \in DOMAIN reqs THEN reqs[identifier] ELSE <<>>
        recent        == RecentRequests(request_times, window_start)
        stored        == DictSet(reqs, identifier, recent)
    IN  IF Len(recent) >= max
        THEN IF recent = <<>>
             THEN [requests |-> stored, request_count |-> count,
                   raised |-> TRUE, allowed |-> FALSE, retry_after |-> 0]
             ELSE [requests |-> DictSet(reqs, identifier, RejectedRecord(recent, t)),
                   request_count |-> count,
                   raised |-> FALSE, allowed |-> FALSE,
                   retry_after |-> RetryAfter(SeqMin(recent), window, t)]
        ELSE LET added == DictSet(reqs, identifier, AdmittedRecord(recent, t))
             IN  IF count + 1 >= CleanupThreshold
                 THEN [requests |-> CleanupOldEntries(added, window_start),
                       request_count |-> 0,
                       raised |-> FALSE, allowed |-> TRUE, retry_after |-> 0]
                 ELSE [requests |-> added, request_count |-> count + 1,
                       raised |-> FALSE, allowed |-> TRUE, retry_after |-> 0]

\* The admitted checks of a history that can still lie inside a window at t.
StillInWindow(log, t) ==
    SelectSeq(log, LAMBDA ts : ts > t - WindowTicks(window_seconds))

NoCall == [op |-> "none"]

InitLimiter ==
    /\ requests = <<>>
    /\ request_count = 0
    /\ max_requests \in 0..MaxRequests
    /\ window_seconds \in WindowChoices
    /\ lim_ret = NoCall
    /\ admitted = [i \in Identifiers |-> <<>>]

\* What one call of rate_limiter.check_rate_limit(identifier, max_requests,
\* window_seconds) does to the limiter.
CheckCall(identifier) ==
    LET r == CheckRateLimit(requests, request_count, identifier,
                            max_requests, window_seconds, now)
    IN  /\ requests' = r.requests
        /\ request_count' = r.request_count
        /\ lim_ret' = [op |-> "check", identifier |-> identifier, at |-> now,
                       raised |-> r.raised, allowed |-> r.allowed,
                       retry_after |-> r.retry_after]
        /\ admitted' = IF r.allowed
                       THEN [admitted EXCEPT ![identifier] =
                                StillInWindow(Append(@, now), now)]
                       ELSE admitted

\* One call of check_rate_limit, the rest of the program at rest.
Check(identifier) ==
    /\ CheckCall(identifier)
    /\ UNCHANGED <<now, max_requests, window_seconds, store_vars, relay_vars, handler_vars>>

\* The clock advances: by one tick (the model follows at most MaxExtraTicks
\* single ticks after a day boundary) or by a whole day.
TickLimiter ==
    \E d \in {1, DayTicks} :
        /\ now + d <= DayTicks + MaxExtraTicks
        /\ (now + d) % DayTicks <= MaxExtraTicks
        /\ now' = now + d
        /\ admitted' = [i \in Identifiers |-> StillInWindow(admitted[i], now + d)]
        /\ UNCHANGED <<requests, request_count, max_requests, window_seconds, lim_ret,
                       store_vars, relay_vars, handler_vars>>

InitClock == now = 0

NextLimiter ==
    \/ \E identifier \in Identifiers : Check(identifier)
    \/ TickLimiter

(***************************************************************************)
(* The session store (models/session.py)                                    *)
(***************************************************************************)
\* Largest max_messages a caller of add_message passes (0 .. MaxHistory).
MaxHistory == 2
\* Appends the model follows on one session beyond max_messages.
ExtraAppends == 2
\* Ticks of the clock the model of the store follows.
MaxStoreNow == 1

None == "None"

SessionIds == {"s1", "s2"}

\* The message a caller appends as the n-th one of a session:
\* ConversationMessage(role, content).  Its content is its ordinal, so that
\* every message of a session is told from the others; user and assistant
\* turns alternate.  The timestamp field of a message, which nothing reads,
\* is left out.
Message(n) == [role |-> IF n % 2 = 1 THEN "user" ELSE "assistant", content |-> n]

\* The keyword arguments a caller passes to create_session.
CreateChoices ==
    { [user_ip |-> "ip1"],
      [user_ip |-> "ip1", problem_id |-> "two-sum", problem_title |-> "Two Sum",
       current_code |-> "code1", language |-> "python", hint_level |-> 1],
      [user_ip |-> "ip1", hint_level |-> 4] }

\* The keyword arguments a caller passes to update_session; "mood" is no
\* attribute of a CodeSession.
UpdateChoices ==
    { [hint_level |-> 2],
      [hint_level |-> 4],
      [current_code |-> "code2", problem_id |-> "lru", problem_title |-> "LRU Cache"],
      [mood |-> "happy"] }

\* CodeSession(session_id=..., user_ip=..., **kwargs): the fields not given
\* take their defaults; last_updated is read from the clock first (at t1) and
\* created_at after it (at t2).
CodeSession(session_id, kwargs, t1, t2) ==
    LET defaults == [session_id |-> session_id,
                     user_ip |-> None,
                     problem_id |-> None,
                     problem_title |-> None,
                     current_code |-> "",
                     language |-> "python",
                     hint_level |-> 0,
                     last_updated |-> t1,
                     message_count |-> 0,
                     created_at |-> t2,
                     conversation_history |-> <<>>]
    IN  [f \in DOMAIN defaults |->
            IF f \in DOMAIN kwargs THEN kwargs[f] ELSE defaults[f]]

\* The validation of the constructor of CodeSession: hint_level is declared
\* Field(0, ge=0, le=3).  It runs when a CodeSession is built and not when
\* an attribute is assigned.
Validates(kwargs) ==
    "hint_level" \in DOMAIN kwargs => (kwargs.hint_level >= 0 /\ kwargs.hint_level <= 3)

\* create_session: the new session is stored under session_id, whatever was
\* stored there.
CreateSessionStore(store, session_id, session) ==
    DictSet(store, session_id, session)

\* The store after get_session(session_id): sessions.get leaves the dict as
\* it is, also for a key it does not hold.
StoreAfterGetInserting(store, session_id, t) ==
    IF session_id \in DOMAIN store THEN store
    ELSE DictSet(store, session_id, CodeSession(session_id, <<>>, t, t))

StoreAfterGet(store, session_id, t) == store

\* The loop of update_session: setattr for every key that is an attribute.
FullReplace(session, updates) ==
    LET fresh == CodeSession(session.session_id, [user_ip |-> session.user_ip],
                             session.last_updated, session.created_at)
    IN  [f \in DOMAIN session |->
            IF f \in DOMAIN updates THEN updates[f] ELSE fresh[f]]

ApplyUpdates(session, updates) ==
    [f \in DOMAIN session |->
        IF f \in DOMAIN updates THEN updates[f] ELSE session[f]]

\* update_session on a stored session, at time t
UpdatedSession(session, updates, t) ==
    [ApplyUpdates(session, updates) EXCEPT !.last_updated = t]

\* update_session on the whole store: a session_id that is not stored
\* changes nothing ("if not session: return None").
UpdateStoreUpserting(store, session_id, updates, t) ==
    IF session_id \in DOMAIN store
    THEN [store EXCEPT ![session_id] = UpdatedSession(@, updates, t)]
    ELSE DictSet(store, session_id,
                 UpdatedSession(CodeSession(session_id, <<>>, t, t), updates, t))

UpdateStore(store, session_id, updates, t) ==
    IF session_id \in DOMAIN store
    THEN [store EXCEPT ![session_id] = UpdatedSession(@, updates, t)]
    ELSE store

\* What update_session returns: the session (here a set holding it), or
\* None (the empty set).
UpdateSessionReturn(store, session_id, updates, t) ==
    IF session_id \in DOMAIN store
    THEN {UpdatedSession(store[session_id], updates, t)}
    ELSE {}

\* What add_message returns
AddMessageReturn(store, session_id) == session_id \in DOMAIN store

\* lst[-n:] of Python, for n >= 0: the last n elements, and the whole list
\* when n = 0 (-0 is 0)
PySliceLast(lst, n) ==
    IF n = 0 \/ n >= Len(lst) THEN lst
    ELSE SubSeq(lst, Len(lst) - n + 1, Len(lst))

\* session.message_count after add_message appended to a history that is now
\* conversation_history
CountFromHistory(message_count, conversation_history) == Len(conversation_history)

CountAfterAppend(message_count, conversation_history) == message_count + 1

\* add_message on a stored session, at time t
WithMessage(session, message, max, t) ==
    LET longer  == Append(session.conversation_history, message)
        trimmed == IF Len(longer) > max THEN PySliceLast(longer, max) ELSE longer
    IN  [session EXCEPT !.conversation_history = trimmed,
                        !.message_count = CountAfterAppend(@, trimmed),
                        !.last_updated = t]

InitStore ==
    /\ sessions = <<>>
    /\ max_messages \in 0..MaxHistory
    /\ appended = [s \in SessionIds |-> <<>>]
    /\ swept = 0

\* create_session(session_id, user_ip, **kwargs); the clock may advance
\* between the two reads the constructor makes.  Arguments the constructor
\* rejects raise ValidationError and nothing is stored.
CreateSession(session_id, kwargs) ==
    \E d \in {0, 1} :
        /\ now + d <= MaxStoreNow
        /\ now' = now + d
        /\ sessions' = IF Validates(kwargs)
                       THEN CreateSessionStore(sessions, session_id,
                                               CodeSession(session_id, kwargs, now, now + d))
                       ELSE sessions
        /\ appended' = IF Validates(kwargs)
                       THEN [appended EXCEPT ![session_id] = <<>>]
                       ELSE appended
        /\ UNCHANGED <<max_messages, swept, limiter_vars, relay_vars, handler_vars>>

\* update_session(session_id, **updates)
UpdateSession(session_id, updates) ==
    /\ sessions' = UpdateStore(sessions, session_id, updates, now)
    /\ UNCHANGED <<now, max_messages, swept, appended, limiter_vars, relay_vars, handler_vars>>

\* add_message(session_id, role, content, max_messages)
AddMessage(session_id) ==
    /\ Len(appended[session_id]) < max_messages + ExtraAppends
    /\ sessions' = IF session_id \in DOMAIN sessions
                   THEN [sessions EXCEPT ![session_id] =
                            WithMessage(@, Message(Len(appended[session_id]) + 1),
                                        max_messages, now)]
                   ELSE sessions
    /\ appended' = IF session_id \in DOMAIN sessions
                   THEN [appended EXCEPT ![session_id] = Append(@, Message(Len(@) + 1))]
                   ELSE appended
    /\ UNCHANGED <<now, max_messages, swept, limiter_vars, relay_vars, handler_vars>>

\* delete_session(session_id) of routers/context.py
DeleteSession(session_id) ==
    /\ sessions' = IF session_id \in DOMAIN sessions
                   THEN DictDel(sessions, session_id)
                   ELSE sessions
    /\ appended' = [appended EXCEPT ![session_id] = <<>>]
    /\ UNCHANGED <<now, max_messages, swept, limiter_vars, relay_vars, handler_vars>>

TickStore ==
    /\ now < MaxStoreNow
    /\ now' = now + 1
    /\ UNCHANGED <<store_vars, limiter_vars, relay_vars, handler_vars>>

NextStore ==
    \/ \E sid \in SessionIds, kw \in CreateChoices : CreateSession(sid, kw)
    \/ \E sid \in SessionIds, upd \in UpdateChoices : UpdateSession(sid, upd)
    \/ \E sid \in SessionIds : AddMessage(sid)
    \/ \E sid \in SessionIds : DeleteSession(sid)
    \/ TickStore

(***************************************************************************)
(* The sweep of the session store (cleanup_old_sessions)                   *)
(***************************************************************************)
\* The largest max_age_hours a caller of the sweep passes; the clock of the
\* model of the sweep runs one hour beyond it.
MaxAgeHours == 2

SecondsPerHour == 3600

HourTicks == SecondsPerHour * TicksPerSecond

\* The sessions the first loop of cleanup_old_sessions collects at time t:
\* age = (now - session.last_updated).total_seconds() / 3600 > max_age_hours
RemovedByCreation(store, max_age_hours, t) ==
    {sid \in DOMAIN store : t - store[sid].created_at > max_age_hours * HourTicks}

ToRemove(store, max_age_hours, t) ==
    {sid \in DOMAIN store : t - store[sid].last_updated > max_age_hours * HourTicks}

\* cleanup_old_sessions(max_age_hours)
CleanupOldSessions(max_age_hours) ==
    LET to_remove == ToRemove(sessions, max_age_hours, now)
    IN  /\ sessions' = [sid \in (DOMAIN sessions) \ to_remove |-> sessions[sid]]
        /\ swept' = Cardinality(to_remove)
        /\ appended' = [sid \in SessionIds |->
                           IF sid \in to_remove THEN <<>> ELSE appended[sid]]
        /\ UNCHANGED <<now, max_messages, limiter_vars, relay_vars, handler_vars>>

\* An hour passes.
TickHour ==
    /\ now + HourTicks <= (MaxAgeHours + 1) * HourTicks + MaxStoreNow
    /\ now' = now + HourTicks
    /\ UNCHANGED <<store_vars, limiter_vars, relay_vars, handler_vars>>

\* The sweep among creations and updates of sessions at various times.
NextSweep ==
    \/ \E max_age_hours \in 0..MaxAgeHours : CleanupOldSessions(max_age_hours)
    \/ \E sid \in SessionIds : CreateSession(sid, [user_ip |-> "ip1"])
    \/ \E sid \in SessionIds : UpdateSession(sid, [hint_level |-> 2])
    \/ TickStore
    \/ TickHour

(***************************************************************************)
(* The voice relay (routers/voice.py)                                       *)
(***************************************************************************)
\* Frames a client sends on one connection.
MaxClientFrames == 2
\* Messages the upstream sends on one connection.
MaxUpstreamMessages == 2
\* Ticks of the clock the model of the relay follows.
MaxRelayNow == 1

\* The connections whose steps the models of one connection follow, and
\* those of the model of two connections
Conns == {"c1"}

PairConns == {"c1", "c2"}

\* The session_id query parameter of a connection.
SessionIdParams == {None, "s1", "s2"}

\* base64.b64encode and base64.b64decode.  Bytes are numbers of 0..255, a
\* base64 text is the sequence of the 6-bit values of its characters, and
\* B64Pad stands for "=".
B64Pad == 64

RECURSIVE B64Encode(_)
B64Encode(bytes) ==
    IF bytes = <<>> THEN <<>>
    ELSE IF Len(bytes) = 1
    THEN LET n == bytes[1] * 65536
         IN  <<n \div 262144, (n \div 4096) % 64, B64Pad, B64Pad>>
    ELSE IF Len(bytes) = 2
    THEN LET n == bytes[1] * 65536 + bytes[2] * 256
         IN  <<n \div 262144, (n \div 4096) % 64, (n \div 64) % 64, B64Pad>>
    ELSE LET n == bytes[1] * 65536 + bytes[2] * 256 + bytes[3]
         IN  <<n \div 262144, (n \div 4096) % 64, (n \div 64) % 64, n % 64>>
             \o B64Encode(SubSeq(bytes, 4, Len(bytes)))

\* b64decode of a padded text: every four characters give three bytes, less
\* one for each "=".
RECURSIVE B64Decode(_)
B64Decode(b64) ==
    IF b64 = <<>> THEN <<>>
    ELSE LET value(i) == IF b64[i] = B64Pad THEN 0 ELSE b64[i]
             pads == Cardinality({i \in 1..4 : b64[i] = B64Pad})
             n == value(1) * 262144 + value(2) * 4096 + value(3) * 64 + value(4)
             three == <<n \div 65536, (n \div 256) % 256, n % 256>>
         IN  SubSeq(three, 1, 3 - pads) \o B64Decode(SubSeq(b64, 5, Len(b64)))

\* A chunk of audio, of a length that needs padding
Pcm == <<77, 0, 255, 16>>

\* A text, told by what json.loads makes of it: an object (with the length
\* of its "text" member, 0 when it has none, and the audio_base_64 of its
\* "audio_event" member when it has one), a JSON value that is no object (a
\* number), or no JSON at all.
ObjectText(text_len) ==
    [parse |-> "object", text_len |-> text_len, has_audio |-> FALSE,
     audio_base_64 |-> <<>>]

AudioEventText(b64) ==
    [parse |-> "object", text_len |-> 0, has_audio |-> TRUE, audio_base_64 |-> b64]

NumberText ==
    [parse |-> "number", text_len |-> 0, has_audio |-> FALSE, audio_base_64 |-> <<>>]

NotJsonText ==
    [parse |-> "invalid", text_len |-> 0, has_audio |-> FALSE, audio_base_64 |-> <<>>]

\* What client_ws.receive() returns: a text frame, a binary frame, or the
\* disconnect message.
ClientFrames ==
    { [type |-> "websocket.receive", text |-> ObjectText(2)],
      [type |-> "websocket.receive", text |-> NotJsonText],
      [type |-> "websocket.receive", bytes |-> Pcm] }

Disconnect == [type |-> "websocket.disconnect"]

\* What the iteration over elevenlabs_ws yields (str messages), and the end
\* of the iteration when the upstream has closed.
UpstreamMessages == {AudioEventText(B64Encode(Pcm)), ObjectText(3), NotJsonText}

UpstreamEnd == [closed |-> TRUE]

\* json.loads(text), and the tests the loops make on its result: valid is
\* that it does not raise, object that the "in" tests on the result do not
\* raise (they raise TypeError on a number).
JsonLoads(text) ==
    [valid |-> text.parse # "invalid", object |-> text.parse = "object",
     text_len |-> text.text_len, has_audio |-> text.has_audio,
     audio_base_64 |-> text.audio_base_64]

\* The number of characters of current_code the priming message carries.
CodeLimit == 800

\* n copies of the string s
RECURSIVE Repeat(_, _)
Repeat(s, n) == IF n = 0 THEN ""
                ELSE IF n % 2 = 0 THEN LET half == Repeat(s, n \div 2) IN half \o half
                ELSE s \o Repeat(s, n - 1)

\* session.current_code and len(session.current_code.strip()) > 0: the code
\* is not made of white space only
HasCode(code) == code # Repeat(" ", Len(code))

\* session.current_code[:800] + ("..." if len(session.current_code) > 800 else "")
CodeSnippetWhole(code) == code

CodeSnippet(code) ==
    SubSeq(code, 1, IF Len(code) < CodeLimit THEN Len(code) ELSE CodeLimit)
        \o (IF Len(code) > CodeLimit THEN "..." ELSE "")

\* The priming message: json.dumps({"type": "text", "text": context_message}).
\* The text quotes the code only when there is some.
PrimingMessage(session) ==
    [type |-> "text", context |-> TRUE,
     has_code |-> HasCode(session.current_code),
     code |-> IF HasCode(session.current_code)
              THEN CodeSnippet(session.current_code) ELSE "",
     language |-> session.language]

\* What the relay sends upstream for a client frame.
ForwardedText(frame) == [type |-> "text", context |-> FALSE, text |-> frame.text]

ForwardedAudio(frame) ==
    [type |-> "text", context |-> FALSE, user_audio_chunk |-> B64Encode(frame.bytes)]

ErrorFrame(message) == [type |-> "error", message |-> message]

\* connection_id = f"{client_ip}_{datetime.now().timestamp()}"
ConnectionId(client_ip, t) == <<client_ip, t>>

NewConn ==
    [pc |-> "new",               \* where voice_stream is
     session_id |-> None,        \* the session_id parameter
     connection_id |-> <<>>,     \* not yet computed
     session |-> {},             \* the local session: none, or the one found
     client_state |-> "CONNECTING",  \* websocket.client_state
     client_peer |-> "open",     \* whether the client is still there
     client_in |-> <<>>,         \* frames of the client not yet received
     client_out |-> <<>>,        \* frames delivered to the client
     client_sent |-> 0,
     client_got |-> <<>>,        \* history: the frames receive() has returned
     c2e_log |-> "none",         \* the level forward_client_to_elevenlabs logged
                                 \* its end at: "info" or "error"
     upstream |-> "none",        \* elevenlabs_ws: none, open or closed
     upstream_in |-> <<>>,       \* messages of the upstream not yet received
     upstream_out |-> <<>>,      \* messages delivered to the upstream
     upstream_sent |-> 0,
     c2e |-> "idle",             \* the task forward_client_to_elevenlabs
     e2c |-> "idle",             \* the task forward_elevenlabs_to_client
     client_closes |-> 0,        \* calls of websocket.close()
     upstream_closes |-> 0,      \* calls of elevenlabs_ws.close()
     removals |-> 0]             \* del active_connections[connection_id]

InitRelay ==
    /\ configured \in BOOLEAN
    /\ active_connections = <<>>
    /\ conn = [c \in PairConns |-> NewConn]

SetConn(c, r) == conn' = [conn EXCEPT ![c] = r]

\* active_connections[connection_id]["characters_used"] += n, done only
\* if connection_id in active_connections
AddCharacters(registry, connection_id, n) ==
    IF connection_id \in DOMAIN registry
    THEN [registry EXCEPT ![connection_id].characters_used = @ + n]
    ELSE registry

\* The state of the two forwarding tasks once websockets.connect has
\* returned: asyncio.gather starts them only after the priming.
TasksStartedAtConnect(primes) == "running"

TasksAfterConnect(primes) == IF primes THEN "idle" ELSE "running"

\* The tests of the finally block before each close.
UpstreamCloseNeeded(upstream_state) == upstream_state = "open"

ClientCloseAlways(client_state) == TRUE

ClientCloseNeeded(client_state) == client_state = "CONNECTED"

\* Whether voice_stream registers the connection: the registration comes
\* after the return of the configuration check.
RegistersBeforeCheck(is_configured) == TRUE

Registers(is_configured) == is_configured

\* await websocket.accept(), then up to the next await: the connection id,
\* the configuration check and the registration.
Accept(c, sid) ==
    /\ conn[c].pc = "new"
    /\ LET id == ConnectionId("ip1", now)
           r  == [conn[c] EXCEPT !.session_id = sid, !.connection_id = id,
                                 !.client_state = "CONNECTED"]
       IN  /\ SetConn(c, [r EXCEPT !.pc = IF configured THEN "connecting" ELSE "cfg_send"])
           /\ active_connections' =
                  IF Registers(configured)
                  THEN DictSet(active_connections, id,
                               [client_ip |-> "ip1", connected_at |-> now,
                                characters_used |-> 0])
                  ELSE active_connections
    /\ UNCHANGED <<now, configured, limiter_vars, store_vars, handler_vars>>

\* await websocket.send_json({"type": "error", ...}) of the configuration
\* check.  Sent to a client that has gone, the frame is lost, and the send
\* either raises (voice_stream ends there) or returns.
CfgErrorSend(c) ==
    /\ conn[c].pc = "cfg_send"
    /\ \/ /\ conn[c].client_peer = "open"
          /\ SetConn(c, [conn[c] EXCEPT
                 !.client_out = Append(@, ErrorFrame("Voice service not configured")),
                 !.pc = "cfg_close"])
       \/ /\ conn[c].client_peer = "gone"
          /\ \E next \in {"cfg_close", "closed"} : SetConn(c, [conn[c] EXCEPT !.pc = next])
    /\ UNCHANGED <<now, configured, active_connections, limiter_vars, store_vars, handler_vars>>

\* await websocket.close() of the configuration check, then return
CfgErrorClose(c) ==
    /\ conn[c].pc = "cfg_close"
    /\ SetConn(c, [conn[c] EXCEPT !.client_closes = @ + 1, !.pc = "closed"])
    /\ UNCHANGED <<now, configured, active_connections, limiter_vars, store_vars, handler_vars>>

\* await websockets.connect(...) returns; then get_session and, for a stored
\* session, the start of the priming send; else asyncio.gather.
ConnectOK(c) ==
    /\ conn[c].pc = "connecting"
    /\ LET sid     == conn[c].session_id
           session == IF sid # None /\ sid \in DOMAIN sessions THEN {sessions[sid]} ELSE {}
           primes  == session # {}
       IN  SetConn(c, [conn[c] EXCEPT
               !.upstream = "open",
               !.session = session,
               !.pc = IF primes THEN "priming" ELSE "relaying",
               !.c2e = TasksAfterConnect(primes),
               !.e2c = TasksAfterConnect(primes)])
    /\ sessions' = IF conn[c].session_id # None
                   THEN StoreAfterGet(sessions, conn[c].session_id, now)
                   ELSE sessions
    /\ UNCHANGED <<now, configured, active_connections, limiter_vars, max_messages,
                   appended, swept, handler_vars>>

\* await websockets.connect(...) raises: a WebSocketException, or another
\* exception.  The except clause notifies a client whose client_state is
\* CONNECTED; then the finally block runs.
ConnectFail(c, exception) ==
    /\ conn[c].pc = "connecting"
    /\ LET notice == IF exception = "WebSocketException"
                     THEN ErrorFrame("Lost connection to voice service")
                     ELSE ErrorFrame("An error occurred in the voice service")
       IN  SetConn(c, [conn[c] EXCEPT
               !.client_out = IF conn[c].client_state = "CONNECTED"
                                 /\ conn[c].client_peer = "open"
                              THEN Append(@, notice) ELSE @,
               !.pc = "closing"])
    /\ UNCHANGED <<now, configured, active_connections, limiter_vars, store_vars, handler_vars>>

\* Where voice_stream goes after the priming send: to the delay when the
\* message was sent, and on to asyncio.gather when the send raised.
PhaseRetrying(sent) == IF sent THEN "sleeping" ELSE "connecting"

PhaseAfterPriming(sent) == IF sent THEN "sleeping" ELSE "relaying"

\* await elevenlabs_ws.send(<priming message>) returns, and voice_stream reads
\* session.current_code again for its log line; or the send raises because
\* the upstream has closed; the exception is caught and logged.
PrimeDone(c) ==
    /\ conn[c].pc = "priming"
    /\ IF conn[c].upstream = "open"
       THEN SetConn(c, [conn[c] EXCEPT
                !.upstream_out = Append(@, PrimingMessage(CHOOSE s \in conn[c].session : TRUE)),
                !.pc = PhaseAfterPriming(TRUE)])
       ELSE SetConn(c, [conn[c] EXCEPT
                !.pc = PhaseAfterPriming(FALSE), !.c2e = "running", !.e2c = "running"])
    /\ UNCHANGED <<now, configured, active_connections, limiter_vars, store_vars, handler_vars>>

\* await asyncio.sleep(0.3) returns; asyncio.gather starts both tasks.
SleepDone(c) ==
    /\ conn[c].pc = "sleeping"
    /\ SetConn(c, [conn[c] EXCEPT
           !.pc = "relaying", !.c2e = "running", !.e2c = "running"])
    /\ UNCHANGED <<now, configured, active_connections, limiter_vars, store_vars, handler_vars>>

\* A send on a WebSocket: the frame follows the frames sent before it.
DeliverFirst(sent, frame) == <<frame>> \o sent

Deliver(sent, frame) == Append(sent, frame)

\* One turn of the loop of forward_client_to_elevenlabs: receive a frame of
\* the client and forward it.
ClientToElevenlabs(c) ==
    /\ conn[c].c2e = "running"
    /\ conn[c].client_in # <<>>
    /\ LET frame == Head(conn[c].client_in)
           r     == [conn[c] EXCEPT !.client_in = Tail(@),
                                    !.client_got = Append(@, frame)]
           id    == conn[c].connection_id
       IN  IF frame = Disconnect
           THEN \* receive() sets client_state; the loop breaks
                /\ SetConn(c, [r EXCEPT !.client_state = "DISCONNECTED", !.c2e = "done",
                                         !.c2e_log = "info"])
                /\ UNCHANGED active_connections
           ELSE IF conn[c].upstream # "open"
           THEN \* elevenlabs_ws.send raises ConnectionClosed: except Exception
                /\ SetConn(c, [r EXCEPT !.c2e = "done", !.c2e_log = "error"])
                /\ UNCHANGED active_connections
           ELSE IF "text" \in DOMAIN frame
           THEN LET sent == [r EXCEPT !.upstream_out = Deliver(@, ForwardedText(frame))]
                    data == JsonLoads(frame.text)
                IN  IF id \in DOMAIN active_connections
                       /\ (~data.valid \/ ~data.object)
                    THEN \* json.loads raises, or the test of "text" on a
                         \* number does: except Exception
                         /\ SetConn(c, [sent EXCEPT !.c2e = "done", !.c2e_log = "error"])
                         /\ UNCHANGED active_connections
                    ELSE /\ SetConn(c, sent)
                         /\ active_connections' =
                                AddCharacters(active_connections, id, data.text_len)
           ELSE /\ SetConn(c, [r EXCEPT !.upstream_out = Deliver(@, ForwardedAudio(frame))])
                /\ UNCHANGED active_connections
    /\ UNCHANGED <<now, configured, limiter_vars, store_vars, handler_vars>>

\* One turn of the loop of forward_elevenlabs_to_client: the next message of
\* the upstream, or the end of the iteration.  A frame sent to a client that
\* has gone is lost, and the send either raises or returns.
ElevenlabsToClient(c) ==
    /\ conn[c].e2c = "running"
    /\ conn[c].upstream_in # <<>>
    /\ LET message == Head(conn[c].upstream_in)
           r       == [conn[c] EXCEPT !.upstream_in = Tail(@)]
           id      == conn[c].connection_id
           data    == JsonLoads(message)
           frame   == IF data.has_audio
                      THEN [type |-> "bytes", bytes |-> B64Decode(data.audio_base_64)]
                      ELSE [type |-> "text", text |-> message]
       IN  IF message = UpstreamEnd
           THEN /\ SetConn(c, [r EXCEPT !.e2c = "done"])
                /\ UNCHANGED active_connections
           ELSE IF conn[c].client_state # "CONNECTED"
           THEN \* break
                /\ SetConn(c, [r EXCEPT !.e2c = "done"])
                /\ UNCHANGED active_connections
           ELSE IF ~data.valid \/ ~data.object
           THEN \* json.loads raises, or the test of "audio_event" on a
                \* number does: except Exception
                /\ SetConn(c, [r EXCEPT !.e2c = "done"])
                /\ UNCHANGED active_connections
           ELSE IF conn[c].client_peer = "open"
           THEN /\ SetConn(c, [r EXCEPT !.client_out = Deliver(@, frame)])
                /\ active_connections' =
                       AddCharacters(active_connections, id, data.text_len)
           ELSE \/ /\ SetConn(c, [r EXCEPT !.e2c = "done"])
                   /\ UNCHANGED active_connections
                \/ /\ SetConn(c, r)
                   /\ active_connections' =
                          AddCharacters(active_connections, id, data.text_len)
    /\ UNCHANGED <<now, configured, limiter_vars, store_vars, handler_vars>>

\* asyncio.gather(..., return_exceptions=True) returns: both tasks are done.
GatherDone(c) ==
    /\ conn[c].pc = "relaying"
    /\ conn[c].c2e = "done"
    /\ conn[c].e2c = "done"
    /\ SetConn(c, [conn[c] EXCEPT !.pc = "closing"])
    /\ UNCHANGED <<now, configured, active_connections, limiter_vars, store_vars, handler_vars>>

\* The finally block: close the upstream if it is open, close the client if
\* its client_state is CONNECTED, and remove the registry entry if it is there.
Close(c) ==
    /\ conn[c].pc = "closing"
    /\ LET id           == conn[c].connection_id
           close_up     == UpstreamCloseNeeded(conn[c].upstream)
           close_client == ClientCloseNeeded(conn[c].client_state)
           registered   == id \in DOMAIN active_connections
       IN  /\ SetConn(c, [conn[c] EXCEPT
                  !.upstream = IF close_up THEN "closed" ELSE @,
                  !.upstream_closes = IF close_up THEN @ + 1 ELSE @,
                  !.client_closes = IF close_client THEN @ + 1 ELSE @,
                  !.removals = IF registered THEN @ + 1 ELSE @,
                  !.pc = "closed"])
           /\ active_connections' =
                  IF registered THEN DictDel(active_connections, id)
                  ELSE active_connections
    /\ UNCHANGED <<now, configured, limiter_vars, store_vars, handler_vars>>

\* The client sends a frame.
ClientSend(c, frame) ==
    /\ conn[c].pc \in {"connecting", "priming", "sleeping", "relaying"}
    /\ conn[c].client_peer = "open"
    /\ conn[c].client_sent < MaxClientFrames
    /\ SetConn(c, [conn[c] EXCEPT !.client_in = Append(@, frame), !.client_sent = @ + 1])
    /\ UNCHANGED <<now, configured, active_connections, limiter_vars, store_vars, handler_vars>>

\* The client goes away.
ClientDisconnect(c) ==
    /\ conn[c].pc \in {"cfg_send", "connecting", "priming", "sleeping", "relaying"}
    /\ conn[c].client_peer = "open"
    /\ SetConn(c, [conn[c] EXCEPT !.client_in = Append(@, Disconnect),
                                  !.client_peer = "gone"])
    /\ UNCHANGED <<now, configured, active_connections, limiter_vars, store_vars, handler_vars>>

\* The upstream sends a message.
UpstreamSend(c, message) ==
    /\ conn[c].pc \in {"priming", "sleeping", "relaying"}
    /\ conn[c].upstream = "open"
    /\ conn[c].upstream_sent < MaxUpstreamMessages
    /\ SetConn(c, [conn[c] EXCEPT !.upstream_in = Append(@, message),
                                  !.upstream_sent = @ + 1])
    /\ UNCHANGED <<now, configured, active_connections, limiter_vars, store_vars, handler_vars>>

\* The upstream closes the connection.
UpstreamClose(c) ==
    /\ conn[c].pc \in {"priming", "sleeping", "relaying"}
    /\ conn[c].upstream = "open"
    /\ SetConn(c, [conn[c] EXCEPT !.upstream_in = Append(@, UpstreamEnd),
                                  !.upstream = "closed"])
    /\ UNCHANGED <<now, configured, active_connections, limiter_vars, store_vars, handler_vars>>

TickRelay ==
    /\ now < MaxRelayNow
    /\ now' = now + 1
    /\ UNCHANGED <<limiter_vars, store_vars, relay_vars, handler_vars>>

NextRelay ==
    \/ \E c \in Conns, sid \in SessionIdParams : Accept(c, sid)
    \/ \E c \in Conns : CfgErrorSend(c)
    \/ \E c \in Conns : CfgErrorClose(c)
    \/ \E c \in Conns : ConnectOK(c)
    \/ \E c \in Conns, exception \in {"WebSocketException", "Exception"} :
          ConnectFail(c, exception)
    \/ \E c \in Conns : PrimeDone(c)
    \/ \E c \in Conns : SleepDone(c)
    \/ \E c \in Conns : ClientToElevenlabs(c)
    \/ \E c \in Conns : ElevenlabsToClient(c)
    \/ \E c \in Conns : GatherDone(c)
    \/ \E c \in Conns : Close(c)
    \/ \E c \in Conns, frame \in ClientFrames : ClientSend(c, frame)
    \/ \E c \in Conns : ClientDisconnect(c)
    \/ \E c \in Conns, message \in UpstreamMessages : UpstreamSend(c, message)
    \/ \E c \in Conns : UpstreamClose(c)
    \/ TickRelay

(***************************************************************************)
(* The request handlers (routers/chat.py, routers/context.py)              *)
(***************************************************************************)
Handlers == {"h1", "h2", "h3"}

\* Ticks of the clock the model of the handlers follows.
MaxHandlerNow == 1

\* A chat request not yet received.  The local session, a reference to the
\* stored object, is modelled by the key the object was found under.
IdleHandler ==
    [pc |-> "idle", identifier |-> None, session_id |-> None, session |-> {},
     retry_after |-> 0]      \* detail.retry_after of its HTTPException(429)

InitHandlers ==
    /\ chat = [h \in Handlers |-> IdleHandler]
    /\ bumped = [s \in SessionIds |-> 0]
    /\ response = NoCall

\* session.message_count + 1 of chat
NextMessageCountLost(message_count) == IF message_count = 0 THEN 1 ELSE message_count

NextMessageCount(message_count) == message_count + 1

\* Where the wrapper goes after the check: "if not is_allowed: raise
\* HTTPException(429)", else "return await func(*args, **kwargs)"
AfterCheckIgnoring(is_allowed) == "admitted"

AfterCheck(is_allowed) == IF is_allowed THEN "admitted" ELSE "rejected"

\* The wrapper of rate_limit around chat, up to "await func(...)": the
\* client address is taken from the request and checked; a rejected request
\* ends with HTTPException(429).
ChatRateCheck(h, identifier, sid) ==
    /\ chat[h].pc = "idle"
    /\ CheckCall(identifier)
    /\ chat' = [chat EXCEPT ![h] =
                   [pc |-> AfterCheck(lim_ret'.allowed),
                    identifier |-> identifier, session_id |-> sid, session |-> {},
                    retry_after |-> IF lim_ret'.allowed THEN 0
                                    ELSE lim_ret'.retry_after]]
    /\ UNCHANGED <<now, max_requests, window_seconds, store_vars, relay_vars, bumped, response>>

\* chat, up to "await vertex_ai_service.generate_response(...)": the session
\* of the X-Session-ID header is looked up and, when found, its message_count
\* is incremented through update_session.
ChatBody(h) ==
    /\ chat[h].pc = "admitted"
    /\ LET sid   == chat[h].session_id
           found == sid \in DOMAIN sessions
       IN  /\ sessions' =
                  IF found
                  THEN [sessions EXCEPT ![sid] =
                           UpdatedSession(@, [message_count |->
                                                 NextMessageCount(@.message_count)], now)]
                  ELSE sessions
           /\ bumped' = IF found THEN [bumped EXCEPT ![sid] = @ + 1] ELSE bumped
           /\ chat' = [chat EXCEPT ![h].pc = "awaiting",
                                   ![h].session = IF found THEN {sid} ELSE {}]
    /\ UNCHANGED <<now, max_messages, appended, swept, limiter_vars, relay_vars,
                   response>>

\* generate_response returns (or raises): chat builds its response.
ChatDone(h) ==
    /\ chat[h].pc = "awaiting"
    /\ chat' = [chat EXCEPT ![h].pc = "done"]
    /\ UNCHANGED <<now, bumped, response, limiter_vars, store_vars, relay_vars>>

\* The clock advances by a tick.
TickHandlers ==
    /\ now < MaxHandlerNow
    /\ now' = now + 1
    /\ admitted' = [i \in Identifiers |-> StillInWindow(admitted[i], now + 1)]
    /\ UNCHANGED <<requests, request_count, max_requests, window_seconds, lim_ret,
                   store_vars, relay_vars, handler_vars>>

\* Chat requests in flight among the handlers of routers/context.py, which
\* have no await: add_conversation_message, the update of sync_context,
\* delete_session and cleanup_sessions.
NextHandlers ==
    \/ \E h \in Handlers, identifier \in Identifiers, sid \in SessionIds :
          ChatRateCheck(h, identifier, sid)
    \/ \E h \in Handlers : ChatBody(h)
    \/ \E h \in Handlers : ChatDone(h)
    \/ \E sid \in SessionIds : AddMessage(sid)
    \/ \E sid \in SessionIds : UpdateSession(sid, [hint_level |-> 2])
    \/ \E sid \in SessionIds : DeleteSession(sid)
    \/ CleanupOldSessions(0)
    \/ TickHandlers

(***************************************************************************)
(* The specifications: one per component, the other components at rest.     *)
(***************************************************************************)
LimiterAtRest ==
    /\ requests = <<>>
    /\ request_count = 0
    /\ max_requests = MaxRequests
    /\ window_seconds = ShortWindow
    /\ lim_ret = NoCall
    /\ admitted = [i \in Identifiers |-> <<>>]

StoreAtRest ==
    /\ sessions = <<>>
    /\ max_messages = MaxHistory
    /\ appended = [s \in SessionIds |-> <<>>]
    /\ swept = 0

HandlersAtRest ==
    /\ chat = [h \in Handlers |-> IdleHandler]
    /\ bumped = [s \in SessionIds |-> 0]
    /\ response = NoCall

RelayAtRest ==
    /\ configured = TRUE
    /\ active_connections = <<>>
    /\ conn = [c \in PairConns |-> NewConn]

\* The store a relay connection finds: a session synced under "s1", none
\* under "s2".
StoreWithSession ==
    /\ sessions = [s \in {"s1"} |->
                      CodeSession("s1", [user_ip |-> "ip1", problem_id |-> "two-sum",
                                         problem_title |-> "Two Sum",
                                         current_code |-> "code1",
                                         language |-> "python", hint_level |-> 1], 0, 0)]
    /\ max_messages = MaxHistory
    /\ appended = [s \in SessionIds |-> <<>>]
    /\ swept = 0

InitLimiterSpec == InitClock /\ InitLimiter /\ StoreAtRest /\ RelayAtRest /\ HandlersAtRest

SpecLimiter == InitLimiterSpec /\ [][NextLimiter]_vars

InitStoreSpec == InitClock /\ LimiterAtRest /\ InitStore /\ RelayAtRest /\ HandlersAtRest

SpecStore == InitStoreSpec /\ [][NextStore]_vars

InitSweepSpec == InitClock /\ LimiterAtRest /\ StoreAtRest /\ RelayAtRest /\ HandlersAtRest

SpecSweep == InitSweepSpec /\ [][NextSweep]_vars

InitHandlersSpec == InitClock /\ LimiterAtRest /\ StoreWithSession /\ RelayAtRest /\ InitHandlers

SpecHandlers == InitHandlersSpec /\ [][NextHandlers]_vars

InitRelaySpec == InitClock /\ LimiterAtRest /\ StoreWithSession /\ InitRelay /\ HandlersAtRest

SpecRelay == InitRelaySpec /\ [][NextRelay]_vars

\* The steps of voice_stream and of its two tasks on a connection: each is
\* the return of an await whose result has arrived, which the event loop
\* delivers.  The steps of the client and of the upstream are not among them:
\* neither is obliged to send or to close.
RelaySteps(c) ==
    \/ CfgErrorSend(c)
    \/ CfgErrorClose(c)
    \/ ConnectOK(c)
    \/ \E exception \in {"WebSocketException", "Exception"} : ConnectFail(c, exception)
    \/ PrimeDone(c)
    \/ SleepDone(c)
    \/ ClientToElevenlabs(c)
    \/ ElevenlabsToClient(c)
    \/ GatherDone(c)
    \/ Close(c)

\* The relay while sessions are deleted (delete_session of routers/context.py).
NextRelayStore ==
    \/ NextRelay
    \/ \E sid \in SessionIds : DeleteSession(sid)

SpecRelayStore == InitRelaySpec /\ [][NextRelayStore]_vars

SpecRelayFair == SpecRelay /\ \A c \in Conns : WF_vars(RelaySteps(c))

(***************************************************************************)
(* Claims about the rate limiter.                                           *)
(***************************************************************************)
\* A step that is a call of check_rate_limit for identifier i.
CheckStep(i) ==
    /\ lim_ret'.op = "check"
    /\ lim_ret'.identifier = i
    /\ <<requests, request_count, lim_ret>>' # <<requests, request_count, lim_ret>>

\* C2: with max_requests >= 1, a check at time now is admitted exactly when
\* fewer than max_requests previously admitted checks of the identifier have
\* a timestamp strictly greater than now - window_seconds; so no trailing
\* window ever holds more than max_requests admitted checks.
C2_AdmittedExactlyBelowLimit ==
    /\ [](\A i \in Identifiers :
            max_requests >= 1 => Len(StillInWindow(admitted[i], now)) <= max_requests)
    /\ [][\A i \in Identifiers :
            (CheckStep(i) /\ max_requests >= 1) =>
                /\ ~lim_ret'.raised
                /\ lim_ret'.allowed <=>
                       (Len(StillInWindow(admitted[i], now)) < max_requests)]_vars

\* C2 witness: a check is rejected because the identifier's window is full.
C2_Witness ==
    /\ lim_ret.op = "check"
    /\ max_requests >= 1
    /\ ~lim_ret.allowed
    /\ ~lim_ret.raised
    /\ Len(admitted[lim_ret.identifier]) = max_requests

\* C8 (as claimed): a rejected check returns oldest + window_seconds - now
\* floored to whole seconds, which is never negative; an admitted check
\* returns 0.
C8_RetryAfterIsTimeLeft ==
    (lim_ret.op = "check" /\ ~lim_ret.raised) =>
        IF lim_ret.allowed
        THEN lim_ret.retry_after = 0
        ELSE /\ lim_ret.retry_after =
                   (SeqMin(requests[lim_ret.identifier])
                      + WindowTicks(window_seconds) - lim_ret.at) \div TicksPerSecond
             /\ lim_ret.retry_after >= 0

\* C9 (as claimed): check_rate_limit never raises.
C9_CheckNeverRaises ==
    lim_ret.op = "check" => ~lim_ret.raised

\* C10: a rejected check adds no timestamp to the identifier's record: the
\* record holds only timestamps of admitted checks, and a rejected check
\* leaves the part of the record that is inside the window as it was.
C10_RejectedCheckAddsNothing ==
    /\ [](\A i \in DOMAIN requests :
            /\ Elems(StillInWindow(requests[i], now)) \subseteq Elems(admitted[i])
            /\ Len(StillInWindow(requests[i], now)) <= Len(admitted[i]))
    /\ [][\A i \in Identifiers :
            (CheckStep(i) /\ ~lim_ret'.allowed /\ ~lim_ret'.raised) =>
                /\ i \in DOMAIN requests
                /\ StillInWindow(requests'[i], now) = StillInWindow(requests[i], now)
                /\ Len(requests'[i]) <= Len(requests[i])]_vars

\* C10 witness: a check was rejected and the identifier's record holds
\* exactly the admitted timestamps.
C10_Witness ==
    /\ lim_ret.op = "check"
    /\ ~lim_ret.allowed
    /\ ~lim_ret.raised
    /\ requests[lim_ret.identifier] = admitted[lim_ret.identifier]
    /\ requests[lim_ret.identifier] # <<>>

(***************************************************************************)
(* Claims about the session store.                                          *)
(***************************************************************************)
Min(a, b) == IF a < b THEN a ELSE b

\* The last k elements of a list.
LastOf(lst, k) == SubSeq(lst, Len(lst) - k + 1, Len(lst))

\* C5 (as claimed): after n appends with max_history = m a session holds
\* exactly the last min(n, m) appended messages, in order, message_count is
\* n, and the history is never longer than the cap.
C5_HistoryIsLastAppended ==
    \A sid \in DOMAIN sessions :
        LET n == Len(appended[sid])
        IN  /\ sessions[sid].conversation_history =
                   LastOf(appended[sid], Min(n, max_messages))
            /\ sessions[sid].message_count = n
            /\ Len(sessions[sid].conversation_history) <= max_messages

\* C6 (as claimed): create_session on a session_id that is already stored
\* leaves the stored session as it was.
C6_CreateLeavesStoredSession ==
    [][\A sid \in SessionIds, kw \in CreateChoices :
          (sid \in DOMAIN sessions /\ CreateSession(sid, kw)) =>
              sessions' = sessions]_vars

\* What update_session(sid, upd) on a stored session may change: the fields
\* given (which take the values given) and last_updated; nothing else of the
\* session, and no other session.
SparsePatch(sid, upd) ==
    /\ DOMAIN sessions' = DOMAIN sessions
    /\ \A other \in (DOMAIN sessions) \ {sid} : sessions'[other] = sessions[other]
    /\ \A f \in DOMAIN sessions[sid] :
          IF f = "last_updated" THEN TRUE
          ELSE IF f \in DOMAIN upd THEN sessions'[sid][f] = upd[f]
          ELSE sessions'[sid][f] = sessions[sid][f]

\* C7 (as claimed): update_session changes only the fields provided and
\* last_updated strictly increases.
C7_SparseUpdateStrictlyLater ==
    [][\A sid \in SessionIds, upd \in UpdateChoices :
          (sid \in DOMAIN sessions /\ UpdateSession(sid, upd)) =>
              /\ SparsePatch(sid, upd)
              /\ sessions'[sid].last_updated > sessions[sid].last_updated]_vars

\* C7 (amended): update_session changes only the fields provided, and sets
\* last_updated to the reading of the clock at the update, which is never
\* earlier than its prior value.
C7_SparseUpdateRefreshes ==
    [][\A sid \in SessionIds, upd \in UpdateChoices :
          (sid \in DOMAIN sessions /\ UpdateSession(sid, upd)) =>
              /\ SparsePatch(sid, upd)
              /\ sessions'[sid].last_updated = now
              /\ sessions'[sid].last_updated >= sessions[sid].last_updated]_vars

\* C7 witness: a session created with code, a problem and a hint level, with
\* a message in its history, whose hint level alone was then updated at a
\* later reading of the clock.
C7_Witness ==
    \E sid \in DOMAIN sessions :
        /\ sessions[sid].hint_level = 2
        /\ sessions[sid].current_code = "code1"
        /\ sessions[sid].problem_id = "two-sum"
        /\ sessions[sid].conversation_history # <<>>
        /\ sessions[sid].last_updated > sessions[sid].created_at
        /\ sessions[sid].last_updated = now


(***************************************************************************)
(* The voice relay: the claims                                             *)
(***************************************************************************)

\* The frames of the client a connection has not yet received.
Unreceived(r) == Len(r.client_in)

\* The messages of the upstream a connection has not yet received.
UnreceivedUpstream(r) == Len(r.upstream_in)

\* C1: once either forwarding loop of a connection has ended, the other loop
\* is cancelled: it receives no further frame of its peer and forwards
\* nothing more.
C1_SiblingLoopCancelled ==
    [][\A c \in Conns :
          /\ conn[c].e2c = "done" =>
                /\ Unreceived(conn'[c]) >= Unreceived(conn[c])
                /\ conn'[c].upstream_out = conn[c].upstream_out
          /\ conn[c].c2e = "done" =>
                /\ UnreceivedUpstream(conn'[c]) >= UnreceivedUpstream(conn[c])
                /\ conn'[c].client_out = conn[c].client_out]_vars

\* C3: on a connection whose session_id resolved to a stored session, the
\* first message the upstream receives is the priming message, and nothing
\* else is sent upstream while the priming send and its delay are under way.
C3_PrimingFirst ==
    \A c \in Conns :
        conn[c].session # {} =>
            /\ conn[c].upstream_out # <<>> =>
                   Head(conn[c].upstream_out) =
                       PrimingMessage(CHOOSE s \in conn[c].session : TRUE)
            /\ conn[c].pc \in {"priming", "sleeping"} =>
                   \A i \in 1..Len(conn[c].upstream_out) : conn[c].upstream_out[i].context

\* A primed connection has forwarded a frame of the client after the priming.
C3_Witness ==
    \E c \in Conns :
        /\ conn[c].session # {}
        /\ Len(conn[c].upstream_out) >= 2
        /\ ~conn[c].upstream_out[2].context

Phase(pc) ==
    CASE pc \in {"new", "cfg_send", "cfg_close", "connecting"} -> 1
      [] pc \in {"priming", "sleeping"} -> 2
      [] pc = "relaying" -> 3
      [] pc = "closing" -> 4
      [] pc = "closed" -> 5

\* C11: the state of a connection only moves forward along Connecting,
\* Priming, Relaying, Closing, Closed; Closed is terminal; and a forwarding
\* task runs only in Relaying, with the upstream connection made.
C11_LifecycleForward ==
    /\ [](\A c \in Conns :
             (conn[c].c2e = "running" \/ conn[c].e2c = "running") =>
                 /\ Phase(conn[c].pc) = 3
                 /\ conn[c].upstream # "none")
    /\ [][\A c \in Conns :
             /\ Phase(conn'[c].pc) >= Phase(conn[c].pc)
             /\ Phase(conn[c].pc) = 5 => conn'[c] = conn[c]
             /\ (conn'[c].upstream_out # conn[c].upstream_out
                   \/ conn'[c].client_out # conn[c].client_out) =>
                    \/ conn[c].upstream # "none"
                    \/ Phase(conn[c].pc) = 1]_vars

\* A connection went through every state: it primed, relayed a frame of the
\* client and is closed.
C11_Witness ==
    \E c \in Conns :
        /\ conn[c].pc = "closed"
        /\ conn[c].session # {}
        /\ Len(conn[c].upstream_out) >= 2

\* The notice of the except WebSocketException clause of voice_stream.
LostConnectionNotice == ErrorFrame("Lost connection to voice service")

\* C12: when the upstream connection failed (the handshake failed, or the
\* upstream closed it in mid-stream) and the client was still connected when
\* the connection was torn down, the client has received the "lost
\* connection to voice service" notice.
C12_UpstreamErrorNotified ==
    \A c \in Conns :
        ( /\ configured
          /\ conn[c].pc = "closed"
          /\ conn[c].upstream \in {"none", "closed"}
          /\ conn[c].upstream_closes = 0
          /\ conn[c].client_peer = "open"
          /\ conn[c].client_closes = 1 )
        => LostConnectionNotice \in Elems(conn[c].client_out)

\* The connection has its entry in the registry.
Registered(c) == conn[c].connection_id \in DOMAIN active_connections

\* A leg of the connection has ended: the handshake failed, or one of the two
\* forwarding tasks is done.
LegEnded(c) ==
    \/ conn[c].pc = "closing"
    \/ conn[c].c2e = "done"
    \/ conn[c].e2c = "done"

\* C13: a registered connection one of whose legs has ended is eventually
\* removed from the registry, and a closed connection has both legs closed:
\* the upstream if it was open, the client unless it had disconnected.
C13_EventuallyRemovedAndClosed ==
    /\ \A c \in Conns : (Registered(c) /\ LegEnded(c)) ~> ~Registered(c)
    /\ [](\A c \in Conns :
             (configured /\ conn[c].pc = "closed") =>
                 /\ conn[c].upstream \in {"none", "closed"}
                 /\ conn[c].client_state = "DISCONNECTED" \/ conn[c].client_closes = 1
                 /\ ~Registered(c))

NotConfiguredFrame == ErrorFrame("Voice service not configured")

\* What holds of every connection when the credentials are missing: no
\* handshake, no priming, no relaying, no registration, and no frame to the
\* client but the one error frame.
NeverBeyondConfigCheck(c) ==
    /\ conn[c].upstream = "none"
    /\ conn[c].upstream_out = <<>>
    /\ conn[c].c2e = "idle"
    /\ conn[c].e2c = "idle"
    /\ Phase(conn[c].pc) \in {1, 5}
    /\ active_connections = <<>>
    /\ conn[c].client_out \in {<<>>, <<NotConfiguredFrame>>}

\* C14 as stated: with the credentials missing, a connection ends with the
\* one error frame sent and the client connection closed, and never goes
\* beyond the configuration check.
C14_ConfigErrorThenClose ==
    ~configured =>
        \A c \in Conns :
            /\ NeverBeyondConfigCheck(c)
            /\ conn[c].pc = "closed" =>
                   /\ conn[c].client_closes = 1
                   /\ conn[c].client_peer = "open" => conn[c].client_out = <<NotConfiguredFrame>>

\* C14, amended: with the credentials missing, a connection never goes beyond
\* the configuration check; to a client that is still there it sends the one
\* error frame and then closes the client connection; when the client has
\* gone before the frame is sent, the send may raise and voice_stream then
\* ends without calling close.
C14_ConfigErrorThenCloseUnlessGone ==
    ~configured =>
        \A c \in Conns :
            /\ NeverBeyondConfigCheck(c)
            /\ conn[c].client_closes <= 1
            /\ conn[c].pc = "closed" =>
                   /\ conn[c].client_closes = 1 \/ conn[c].client_peer = "gone"
                   /\ conn[c].client_closes = 0 => conn[c].client_out = <<>>
                   /\ conn[c].client_peer = "open" => conn[c].client_out = <<NotConfiguredFrame>>

\* An unconfigured relay has sent the error frame to a client and closed.
C14_Witness ==
    /\ ~configured
    /\ \E c \in Conns :
          /\ conn[c].pc = "closed"
          /\ conn[c].client_out = <<NotConfiguredFrame>>
          /\ conn[c].client_closes = 1

(***************************************************************************)
(* The session store: the invariants of a stored session                   *)
(***************************************************************************)

\* C19: every stored session has last_updated >= created_at.
C19_UpdatedNotBeforeCreated ==
    \A sid \in DOMAIN sessions :
        sessions[sid].last_updated >= sessions[sid].created_at

\* C20: every stored session has hint_level in [0,3].
C20_HintLevelInRange ==
    \A sid \in DOMAIN sessions :
        sessions[sid].hint_level >= 0 /\ sessions[sid].hint_level <= 3

(***************************************************************************)
(* The sweep: the claims                                                   *)
(***************************************************************************)

\* The sessions older than max_age_hours, by their last_updated.
Stale(max_age_hours) ==
    {sid \in DOMAIN sessions :
        now - sessions[sid].last_updated > max_age_hours * SecondsPerHour * TicksPerSecond}

\* C18: a sweep removes exactly the sessions whose age, measured from
\* last_updated, exceeds max_age_hours, leaves the others stored and unchanged,
\* and returns the number removed.
C18_SweepRemovesExactlyStale ==
    [][\A max_age_hours \in 0..MaxAgeHours :
          CleanupOldSessions(max_age_hours) =>
              /\ DOMAIN sessions' = (DOMAIN sessions) \ Stale(max_age_hours)
              /\ \A sid \in DOMAIN sessions' : sessions'[sid] = sessions[sid]
              /\ swept' = Cardinality(Stale(max_age_hours))]_vars

\* A sweep has removed one session and retained another, which had then been
\* untouched for an hour or more and had been created more than MaxAgeHours
\* before.
C18_Witness ==
    /\ swept = 1
    /\ \E sid \in DOMAIN sessions :
          /\ now - sessions[sid].last_updated >= HourTicks
          /\ now - sessions[sid].last_updated <= MaxAgeHours * HourTicks
          /\ now - sessions[sid].created_at > MaxAgeHours * HourTicks

(***************************************************************************)
(* Concurrent requests: the claims                                         *)
(***************************************************************************)

\* The chat requests that are in flight: admitted and not yet answered.
InFlight == {h \in Handlers : chat[h].pc \in {"admitted", "awaiting"}}

\* C16: no interleaving of requests loses an update of a session: the
\* message_count of a stored session is the number of messages appended to
\* it plus the number of chat requests that incremented it, and its history
\* holds the messages appended, in order, up to the cap.
C16_NoLostUpdate ==
    \A sid \in DOMAIN sessions :
        /\ sessions[sid].message_count = Len(appended[sid]) + bumped[sid]
        /\ sessions[sid].conversation_history =
               LastOf(appended[sid], Min(Len(appended[sid]), max_messages))

\* Two chat requests in flight at once have both incremented the
\* message_count of a session that messages were appended to meanwhile.
C16_Witness ==
    \E sid \in DOMAIN sessions :
        /\ Cardinality({h \in InFlight : chat[h].pc = "awaiting" /\ chat[h].session = {sid}}) >= 2
        /\ bumped[sid] >= 2
        /\ Len(appended[sid]) >= 1

\* The record the limiter holds for an identifier.
RecordOf(identifier) ==
    IF identifier \in DOMAIN requests THEN requests[identifier] ELSE <<>>

\* C17: whatever the interleaving of the requests, no more than max_requests
\* checks of an identifier are admitted within a window, and the record of
\* the identifier holds every admitted timestamp that is still inside the
\* window.
C17_LimitHoldsUnderConcurrency ==
    \A i \in Identifiers :
        /\ Len(StillInWindow(admitted[i], now)) <= max_requests
        /\ StillInWindow(RecordOf(i), now) = StillInWindow(admitted[i], now)

\* A request was rejected while max_requests requests of the same identifier
\* were in flight.
C17_Witness ==
    \E h \in Handlers :
        /\ chat[h].pc = "rejected"
        /\ Cardinality({g \in InFlight : chat[g].identifier = chat[h].identifier})
               = max_requests

\* C15: no component uses a session obtained from the store after it has
\* suspended: when voice_stream reads its local session after the await of
\* the priming send, the session is still the one stored under its key.
C15_NoSessionAcrossAwait ==
    [][\A c \in Conns :
          (conn[c].pc = "priming" /\ conn'[c].pc = "sleeping") =>
              /\ conn[c].session_id \in DOMAIN sessions
              /\ sessions[conn[c].session_id] \in conn[c].session]_vars

(***************************************************************************)
(* The counter of a session                                               *)
(***************************************************************************)

Headers == {"", "lost"} \cup SessionIds

\* Bodies of POST /sync (ContextSyncRequest); language and hint_level take
\* their defaults when omitted.
ContextSyncRequests ==
    { [code |-> None, problem_id |-> None, problem_title |-> None,
       language |-> "python", hint_level |-> 0],
      [code |-> "code2", problem_id |-> "lru-cache", problem_title |-> "LRU Cache",
       language |-> "javascript", hint_level |-> 3] }

\* The keyword arguments sync_context passes to create_session
SyncCreation(request, client_ip) ==
    [user_ip |-> client_ip,
     problem_id |-> request.problem_id,
     problem_title |-> request.problem_title,
     current_code |-> IF request.code \in {None, ""} THEN "" ELSE request.code,
     language |-> request.language,
     hint_level |-> request.hint_level]

\* The keyword arguments sync_context passes to update_session: a field the
\* request omits (None) keeps the value of the session.
SyncUpdatesOverwriting(session, request) ==
    [current_code |-> request.code,
     problem_id |-> request.problem_id,
     problem_title |-> request.problem_title,
     language |-> request.language,
     hint_level |-> request.hint_level]

SyncUpdates(session, request) ==
    [current_code |-> IF request.code # None THEN request.code ELSE session.current_code,
     problem_id |-> IF request.problem_id # None THEN request.problem_id
                    ELSE session.problem_id,
     problem_title |-> IF request.problem_title # None THEN request.problem_title
                       ELSE session.problem_title,
     language |-> request.language,
     hint_level |-> request.hint_level]

\* str(uuid.uuid4()): an id that is neither stored nor the one the request
\* named.
FreshIds(store, header) == SessionIds \ ((DOMAIN store) \cup {header})

\* "session = get_session(session_id) if session_id else None" finds one
Found(store, header) == header # "" /\ header \in DOMAIN store

\* POST /sync
SyncContext(header, request) ==
    /\ IF Found(sessions, header)
       THEN /\ sessions' = UpdateStore(sessions, header,
                                       SyncUpdates(sessions[header], request), now)
            /\ response' = [op |-> "sync_context", header |-> header,
                            status |-> 200, session_id |-> header]
            /\ UNCHANGED <<now, appended>>
       ELSE \E fresh \in FreshIds(sessions, header), d \in {0, 1} :
              /\ now + d <= MaxStoreNow
              /\ now' = now + d
              /\ sessions' = CreateSessionStore(sessions, fresh,
                                 CodeSession(fresh, SyncCreation(request, "ip1"),
                                             now, now + d))
              /\ appended' = [appended EXCEPT ![fresh] = <<>>]
              /\ response' = [op |-> "sync_context", header |-> header,
                              status |-> 200, session_id |-> fresh]
    /\ UNCHANGED <<max_messages, swept, limiter_vars, relay_vars, chat, bumped>>

\* POST /message
AddConversationMessage(header) ==
    /\ IF header = ""
       THEN /\ response' = [op |-> "add_conversation_message", header |-> header,
                            status |-> 400]
            /\ UNCHANGED <<sessions, appended>>
       ELSE IF header \notin DOMAIN sessions
       THEN /\ response' = [op |-> "add_conversation_message", header |-> header,
                            status |-> 404]
            /\ UNCHANGED <<sessions, appended>>
       ELSE /\ Len(appended[header]) < max_messages + ExtraAppends
            /\ sessions' = [sessions EXCEPT ![header] =
                               WithMessage(@, Message(Len(appended[header]) + 1),
                                           max_messages, now)]
            /\ appended' = [appended EXCEPT ![header] = Append(@, Message(Len(@) + 1))]
            /\ response' = [op |-> "add_conversation_message", header |-> header,
                            status |-> 200,
                            message_count |-> sessions'[header].message_count,
                            history_size |->
                                Len(sessions'[header].conversation_history)]
    /\ UNCHANGED <<now, max_messages, swept, limiter_vars, relay_vars, chat, bumped>>

\* A call of update_session, with what it returned
UpdateSessionCall(session_id, updates) ==
    /\ sessions' = UpdateStore(sessions, session_id, updates, now)
    /\ response' = [op |-> "update_session", session_id |-> session_id,
                    returned |-> UpdateSessionReturn(sessions, session_id, updates, now)]
    /\ UNCHANGED <<now, max_messages, swept, appended, limiter_vars, relay_vars,
                   chat, bumped>>

\* A call of add_message, with what it returned
AddMessageCall(session_id) ==
    /\ session_id \in DOMAIN sessions =>
           Len(appended[session_id]) < max_messages + ExtraAppends
    /\ sessions' = IF session_id \in DOMAIN sessions
                   THEN [sessions EXCEPT ![session_id] =
                            WithMessage(@, Message(Len(appended[session_id]) + 1),
                                        max_messages, now)]
                   ELSE sessions
    /\ appended' = IF session_id \in DOMAIN sessions
                   THEN [appended EXCEPT ![session_id] = Append(@, Message(Len(@) + 1))]
                   ELSE appended
    /\ response' = [op |-> "add_message", session_id |-> session_id,
                    returned |-> AddMessageReturn(sessions, session_id)]
    /\ UNCHANGED <<now, max_messages, swept, limiter_vars, relay_vars, chat, bumped>>

\* DELETE /session/{session_id}
DeleteSessionCall(session_id) ==
    /\ sessions' = IF session_id \in DOMAIN sessions
                   THEN DictDel(sessions, session_id)
                   ELSE sessions
    /\ appended' = [appended EXCEPT ![session_id] = <<>>]
    /\ response' = [op |-> "delete_session", session_id |-> session_id,
                    status |-> IF session_id \in DOMAIN sessions THEN 200 ELSE 404]
    /\ UNCHANGED <<now, max_messages, swept, limiter_vars, relay_vars, chat, bumped>>

NextContext ==
    \/ \E header \in Headers, request \in ContextSyncRequests :
          SyncContext(header, request)
    \/ \E header \in Headers : AddConversationMessage(header)
    \/ \E sid \in SessionIds : UpdateSessionCall(sid, [hint_level |-> 1])
    \/ \E sid \in SessionIds : AddMessageCall(sid)
    \/ \E sid \in SessionIds : DeleteSessionCall(sid)
    \/ TickStore

InitContextSpec == InitClock /\ LimiterAtRest /\ StoreAtRest /\ RelayAtRest /\ HandlersAtRest

SpecContext == InitContextSpec /\ [][NextContext]_vars

(***************************************************************************)
(* Claims about the handlers of routers/context.py                         *)
(***************************************************************************)

\* C22: an operation that names a session not stored fails and has no
\* effect: update_session returns None, add_message returns False, POST
\* /message answers 404, and 400 when the X-Session-ID header is absent; in
\* each case the store after the call is the store before it.
C22_UnknownSessionFailsWithoutEffect ==
    [][/\ \A sid \in SessionIds :
            (sid \notin DOMAIN sessions /\ UpdateSessionCall(sid, [hint_level |-> 1]))
                => (response'.returned = {} /\ sessions' = sessions)
       /\ \A sid \in SessionIds :
            (sid \notin DOMAIN sessions /\ AddMessageCall(sid))
                => (response'.returned = FALSE /\ sessions' = sessions)
       /\ \A header \in Headers :
            (~Found(sessions, header) /\ AddConversationMessage(header))
                => /\ response'.status = IF header = "" THEN 400 ELSE 404
                   /\ sessions' = sessions]_vars

\* update_session was called for a session that is not stored, while
\* another session, with messages, is.
C22_Witness ==
    /\ response.op = "update_session"
    /\ response.session_id \notin DOMAIN sessions
    /\ \E sid \in DOMAIN sessions : sessions[sid].message_count > 0

\* C23: POST /sync whose header is absent or names no stored session stores
\* exactly one new session, under an id that was not stored, and answers
\* that id, every stored session staying as it was; POST /sync whose header
\* names a stored session stores no new session, answers the same id, and
\* updates that session in place: current_code, problem_id and problem_title
\* keep their value when the request omits them, conversation_history and
\* message_count are untouched.
C23_SyncCreatesOrUpdatesInPlace ==
    [][\A header \in Headers, request \in ContextSyncRequests :
          SyncContext(header, request) =>
              LET id == response'.session_id
              IN  IF Found(sessions, header)
                  THEN /\ id = header
                       /\ DOMAIN sessions' = DOMAIN sessions
                       /\ \A sid \in (DOMAIN sessions) \ {header} :
                              sessions'[sid] = sessions[sid]
                       /\ LET old == sessions[header]
                              new == sessions'[header]
                          IN  /\ new.current_code =
                                     IF request.code = None THEN old.current_code
                                     ELSE request.code
                              /\ new.problem_id =
                                     IF request.problem_id = None THEN old.problem_id
                                     ELSE request.problem_id
                              /\ new.problem_title =
                                     IF request.problem_title = None
                                     THEN old.problem_title
                                     ELSE request.problem_title
                              /\ new.conversation_history = old.conversation_history
                              /\ new.message_count = old.message_count
                              /\ new.session_id = header
                  ELSE /\ id \notin DOMAIN sessions
                       /\ DOMAIN sessions' = (DOMAIN sessions) \cup {id}
                       /\ \A sid \in DOMAIN sessions : sessions'[sid] = sessions[sid]
                       /\ sessions'[id].session_id = id]_vars

\* A sync that named a stored session with messages and omitted the code
\* and the problem: they are still those of an earlier sync.
C23_Witness ==
    /\ response.op = "sync_context"
    /\ response.header = response.session_id
    /\ response.session_id \in DOMAIN sessions
    /\ LET session == sessions[response.session_id]
       IN  /\ session.message_count > 0
           /\ session.current_code = "code2"
           /\ session.problem_id = "lru-cache"
           /\ session.hint_level = 0

(***************************************************************************)
(* get_conversation_summary.  The content of a message is a sequence of    *)
(* characters, a summary is the sequence of its lines ("\n".join), and the *)
(* empty text is the empty sequence.                                       *)
(***************************************************************************)
\* The largest max_exchanges a caller of the summary passes
MaxExchanges == 2

\* The longest history of the sessions that are summarized
MaxSummaryHistory == 5

\* msg.content[:150], len(msg.content) > 150
SummaryContentLimit == 150

\* A content of n characters
Content(n) == [i \in 1..n |-> IF i % 2 = 1 THEN "a" ELSE "b"]

\* The messages of the summarized histories: a short content, one of
\* exactly 150 characters and one of 151
SummaryMessages ==
    { [role |-> "user", content |-> Content(2)],
      [role |-> "assistant", content |-> Content(SummaryContentLimit)],
      [role |-> "user", content |-> Content(SummaryContentLimit + 1)] }

Histories == UNION {[1..n -> SummaryMessages] : n \in 0..MaxSummaryHistory}

\* f"- {role_label}: {content}"
SummaryLine(msg) ==
    [role_label |-> IF msg.role = "user" THEN "User" ELSE "You (AI)",
     content |-> IF Len(msg.content) > SummaryContentLimit
                 THEN SubSeq(msg.content, 1, SummaryContentLimit) \o <<".", ".", ".">>
                 ELSE msg.content]

\* get_conversation_summary(session_id, max_exchanges) on a store
ConversationSummary(store, session_id, max_exchanges) ==
    IF session_id \notin DOMAIN store THEN <<>>
    ELSE IF store[session_id].conversation_history = <<>> THEN <<>>
    ELSE LET recent == PySliceLast(store[session_id].conversation_history,
                                   max_exchanges * 2)
         IN  IF recent = <<>> THEN <<>>
             ELSE <<"[PREVIOUS CONVERSATION SUMMARY]">>
                  \o [i \in 1..Len(recent) |-> SummaryLine(recent[i])]
                  \o <<"[END OF SUMMARY - Continue from where we left off]">>

\* A call of get_conversation_summary, with what it returned
GetConversationSummary(session_id, max_exchanges) ==
    /\ response' = [op |-> "get_conversation_summary", session_id |-> session_id,
                    max_exchanges |-> max_exchanges,
                    returned |-> ConversationSummary(sessions, session_id, max_exchanges)]
    /\ UNCHANGED <<now, store_vars, limiter_vars, relay_vars, chat, bumped>>

\* A store with one session, of any history
InitSummarySpec ==
    /\ InitClock /\ LimiterAtRest /\ RelayAtRest /\ HandlersAtRest
    /\ \E history \in Histories :
          sessions = [s \in {"s1"} |->
                         [CodeSession("s1", [user_ip |-> "ip1"], 0, 0)
                             EXCEPT !.conversation_history = history,
                                    !.message_count = Len(history)]]
    /\ max_messages = MaxSummaryHistory
    /\ appended = [s \in SessionIds |-> <<>>]
    /\ swept = 0

NextSummary ==
    \E sid \in SessionIds, max_exchanges \in 0..MaxExchanges :
        GetConversationSummary(sid, max_exchanges)

SpecSummary == InitSummarySpec /\ [][NextSummary]_vars

\* C24: the summary of a session holds, between its two sentinel lines, one
\* line for each of the most recent max_exchanges * 2 messages (all of them
\* when there are fewer), in order, a content of more than 150 characters cut
\* to its first 150 followed by an ellipsis; it is the empty text when the
\* session is not stored or has no history.
C24_SummaryOfLastExchanges ==
    response.op = "get_conversation_summary" =>
        LET sid == response.session_id
            history == IF sid \in DOMAIN sessions
                       THEN sessions[sid].conversation_history ELSE <<>>
            recent == LastOf(history, Min(response.max_exchanges * 2, Len(history)))
            lines == response.returned
        IN  IF history = <<>> THEN lines = <<>>
            ELSE /\ Len(lines) = Len(recent) + 2
                 /\ lines[1] = "[PREVIOUS CONVERSATION SUMMARY]"
                 /\ lines[Len(lines)] = "[END OF SUMMARY - Continue from where we left off]"
                 /\ \A i \in 1..Len(recent) :
                       /\ Len(lines[i + 1].content) <= SummaryContentLimit + 3
                       /\ lines[i + 1].content =
                              IF Len(recent[i].content) > SummaryContentLimit
                              THEN SubSeq(recent[i].content, 1, SummaryContentLimit)
                                       \o <<".", ".", ".">>
                              ELSE recent[i].content

(***************************************************************************)
(* The reading handlers of routers/context.py, beside the session lookup   *)
(* and the priming of the voice relay                                      *)
(***************************************************************************)
\* GET /session/{session_id}
GetSessionInfo(session_id) ==
    /\ sessions' = StoreAfterGet(sessions, session_id, now)
    /\ response' =
           IF session_id \in DOMAIN sessions
           THEN [op |-> "get_session_info", session_id |-> session_id, status |-> 200,
                 hint_level |-> sessions[session_id].hint_level,
                 message_count |-> sessions[session_id].message_count]
           ELSE [op |-> "get_session_info", session_id |-> session_id, status |-> 404]
    /\ UNCHANGED <<now, max_messages, appended, swept, limiter_vars, relay_vars,
                   chat, bumped>>

\* GET /summary/{session_id}: get_conversation_summary with its default
\* max_exchanges of 5, then get_session
GetSessionSummary(session_id) ==
    /\ sessions' = StoreAfterGet(sessions, session_id, now)
    /\ response' =
           IF session_id \in DOMAIN sessions
           THEN [op |-> "get_session_summary", session_id |-> session_id,
                 status |-> 200,
                 summary |-> ConversationSummary(sessions, session_id, 5),
                 has_history |-> sessions[session_id].conversation_history # <<>>]
           ELSE [op |-> "get_session_summary", session_id |-> session_id,
                 status |-> 404]
    /\ UNCHANGED <<now, max_messages, appended, swept, limiter_vars, relay_vars,
                   chat, bumped>>

\* GET /stats, for a store of at most one session (the sums are over
\* sessions.values())
ContextStats ==
    /\ Cardinality(DOMAIN sessions) <= 1
    /\ response' =
           [op |-> "context_stats",
            total_sessions |-> Cardinality(DOMAIN sessions),
            active_sessions |->
                Cardinality({sid \in DOMAIN sessions : sessions[sid].message_count > 0}),
            total_messages |->
                IF sessions = <<>> THEN 0
                ELSE sessions[CHOOSE sid \in DOMAIN sessions : TRUE].message_count]
    /\ UNCHANGED <<now, store_vars, limiter_vars, relay_vars, chat, bumped>>

\* The steps that read the store, among a delete
Reads ==
    \/ \E sid \in SessionIds : GetSessionInfo(sid)
    \/ \E sid \in SessionIds : GetSessionSummary(sid)
    \/ \E sid \in SessionIds, max_exchanges \in 0..MaxExchanges :
          GetConversationSummary(sid, max_exchanges)
    \/ ContextStats
    \/ \E c \in Conns : ConnectOK(c)
    \/ \E c \in Conns : PrimeDone(c)
    \/ \E c \in Conns : SleepDone(c)

NextReads ==
    \/ Reads
    \/ \E c \in Conns, sid \in SessionIdParams : Accept(c, sid)
    \/ \E sid \in SessionIds : DeleteSessionCall(sid)

SpecReads == InitSummarySpec /\ [][NextReads]_vars

\* C25: a step that reads the store (get_session_info, the two summaries,
\* the statistics, and the lookup, priming and delay of a voice connection)
\* leaves every session as it was: none created, changed or removed.
C25_ReadsLeaveStore ==
    [][Reads => sessions' = sessions]_vars

\* A voice connection has looked up and primed a stored session with
\* history, and one that named a session not stored has gone on without;
\* a summary of a session with history was answered.
C25_Witness ==
    /\ sessions # <<>>
    /\ response.op = "get_session_summary"
    /\ response.status = 200
    /\ response.has_history
    /\ \E c \in Conns :
          /\ conn[c].pc = "relaying"
          /\ conn[c].session # {}
          /\ Len(conn[c].upstream_out) = 1

(***************************************************************************)
(* The framing of the two forwarding loops, on byte strings of every       *)
(* length modulo 3 and on the texts json.loads accepts                     *)
(***************************************************************************)
ByteStrings == {<<>>, <<255>>, <<0, 77>>, <<77, 0, 255>>, Pcm}

FramingClientFrames ==
    {[type |-> "websocket.receive", bytes |-> b] : b \in ByteStrings}

FramingUpstreamMessages ==
    {AudioEventText(B64Encode(b)) : b \in ByteStrings} \cup {ObjectText(3), NumberText}

\* A connection without a session, its two loops, and the frames of both
\* sides
NextFraming ==
    \/ \E c \in Conns : Accept(c, None)
    \/ \E c \in Conns : ConnectOK(c)
    \/ \E c \in Conns : ClientToElevenlabs(c)
    \/ \E c \in Conns : ElevenlabsToClient(c)
    \/ \E c \in Conns, frame \in FramingClientFrames : ClientSend(c, frame)
    \/ \E c \in Conns, message \in FramingUpstreamMessages : UpstreamSend(c, message)

SpecFraming == InitRelaySpec /\ [][NextFraming]_vars

\* C26: for every byte string b, a binary client frame b is sent upstream
\* as the JSON text {"user_audio_chunk": base64(b)}, base64 being a text of
\* four characters for every three bytes that decodes to b again; an
\* upstream JSON text whose audio_event.audio_base_64 is base64(b) is sent
\* to the client as one binary frame equal to b; and every other upstream
\* JSON text is sent to the client verbatim, as a text frame.
C26_FramingRoundTrip ==
    [][\A c \in Conns :
          /\ (ClientToElevenlabs(c) /\ "bytes" \in DOMAIN Head(conn[c].client_in)) =>
                LET b == Head(conn[c].client_in).bytes
                IN  /\ B64Decode(B64Encode(b)) = b
                    /\ Len(B64Encode(b)) = 4 * ((Len(b) + 2) \div 3)
                    /\ conn'[c].upstream_out =
                           Append(conn[c].upstream_out,
                                  [type |-> "text", context |-> FALSE,
                                   user_audio_chunk |-> B64Encode(b)])
          /\ (ElevenlabsToClient(c) /\ Head(conn[c].upstream_in).parse # "invalid") =>
                LET message == Head(conn[c].upstream_in)
                IN  IF \E b \in ByteStrings : message = AudioEventText(B64Encode(b))
                    THEN \E b \in ByteStrings :
                            /\ message = AudioEventText(B64Encode(b))
                            /\ conn'[c].client_out =
                                   Append(conn[c].client_out,
                                          [type |-> "bytes", bytes |-> b])
                    ELSE conn'[c].client_out =
                             Append(conn[c].client_out,
                                    [type |-> "text", text |-> message])]_vars

\* What the relay sends for a frame it received: upstream for a frame of
\* the client, and to the client for a message of the upstream
UpstreamFrameFor(frame) ==
    IF "text" \in DOMAIN frame THEN ForwardedText(frame) ELSE ForwardedAudio(frame)

ClientFrameFor(message) ==
    IF message.has_audio
    THEN [type |-> "bytes", bytes |-> B64Decode(message.audio_base_64)]
    ELSE [type |-> "text", text |-> message]

\* C27: in each direction the frames are delivered in the order received,
\* one output frame for each forwarded input frame: a step takes at most
\* the oldest frame not yet received of a side, and what it sends to the
\* other side is that one frame, forwarded, placed after everything sent
\* before (the only other frames sent are the priming message and the error
\* notices of voice_stream itself).
C27_OrderPreserved ==
    [][\A c \in Conns :
          LET old == conn[c]
              new == conn'[c]
          IN  /\ new.client_in # old.client_in =>
                    \/ old.client_in # <<>> /\ new.client_in = Tail(old.client_in)
                    \/ /\ Len(new.client_in) = Len(old.client_in) + 1
                       /\ SubSeq(new.client_in, 1, Len(old.client_in)) = old.client_in
              /\ new.upstream_in # old.upstream_in =>
                    \/ old.upstream_in # <<>> /\ new.upstream_in = Tail(old.upstream_in)
                    \/ /\ Len(new.upstream_in) = Len(old.upstream_in) + 1
                       /\ SubSeq(new.upstream_in, 1, Len(old.upstream_in)) = old.upstream_in
              /\ new.upstream_out # old.upstream_out =>
                    \/ /\ old.pc = "priming"
                       /\ \E s \in old.session :
                             new.upstream_out = Append(old.upstream_out, PrimingMessage(s))
                    \/ /\ old.client_in # <<>>
                       /\ new.client_in = Tail(old.client_in)
                       /\ new.upstream_out =
                              Append(old.upstream_out, UpstreamFrameFor(Head(old.client_in)))
              /\ new.client_out # old.client_out =>
                    \/ /\ old.pc \in {"cfg_send", "connecting"}
                       /\ \E notice \in {"Voice service not configured",
                                         "Lost connection to voice service",
                                         "An error occurred in the voice service"} :
                             new.client_out = Append(old.client_out, ErrorFrame(notice))
                    \/ /\ old.upstream_in # <<>>
                       /\ new.upstream_in = Tail(old.upstream_in)
                       /\ new.client_out =
                              Append(old.client_out, ClientFrameFor(Head(old.upstream_in)))]_vars

\* Two different frames of each side have been forwarded, after the priming
\* message: they arrived in the order they were sent.
C27_Witness ==
    \E c \in Conns :
        /\ Len(conn[c].upstream_out) = 3
        /\ conn[c].upstream_out[1].context
        /\ conn[c].upstream_out[2] = ForwardedAudio([bytes |-> Pcm])
        /\ conn[c].upstream_out[3] = ForwardedText([text |-> ObjectText(2)])
        /\ conn[c].client_out = <<[type |-> "text", text |-> ObjectText(3)],
                                  [type |-> "bytes", bytes |-> Pcm]>>

\* A text frame of the client that is no JSON object
Malformed(frame) == "text" \in DOMAIN frame /\ frame.text.parse # "object"

\* C28: a disconnect of the client, or a malformed text frame of the client
\* (no valid JSON, or JSON that is no object) received while the upstream is
\* open, ends forward_client_to_elevenlabs as a normal end of the session:
\* the loop is over and its end is not logged as an error.
C28_ClientErrorsEndNormally ==
    [][\A c \in Conns :
          (/\ ClientToElevenlabs(c)
           /\ \/ Head(conn[c].client_in) = Disconnect
              \/ Malformed(Head(conn[c].client_in)) /\ conn[c].upstream = "open")
          => (conn'[c].c2e = "done" /\ conn'[c].c2e_log = "info")]_vars

(***************************************************************************)
(* Two voice connections of one client address                             *)
(***************************************************************************)
\* The text frames the clients of the two connections send
PairFrames ==
    { [type |-> "websocket.receive", text |-> ObjectText(2)],
      [type |-> "websocket.receive", text |-> NotJsonText] }

NextRelayPair ==
    \/ \E c \in PairConns : Accept(c, None)
    \/ \E c \in PairConns : ConnectOK(c)
    \/ \E c \in PairConns : ClientToElevenlabs(c)
    \/ \E c \in PairConns : ElevenlabsToClient(c)
    \/ \E c \in PairConns : GatherDone(c)
    \/ \E c \in PairConns : Close(c)
    \/ \E c \in PairConns, frame \in PairFrames : ClientSend(c, frame)
    \/ \E c \in PairConns : ClientDisconnect(c)
    \/ \E c \in PairConns : UpstreamClose(c)
    \/ TickRelay

SpecRelayPair == InitRelaySpec /\ [][NextRelayPair]_vars

\* The entry of the registry under the connection_id of a connection: none,
\* or one
RegistryEntry(registry, r) ==
    IF r.connection_id \in DOMAIN registry THEN {registry[r.connection_id]} ELSE {}

\* A connection voice_stream has registered and not yet torn down
Live(r) == r.pc \in {"connecting", "priming", "sleeping", "relaying", "closing"}

\* C29: the teardown of one voice connection (the finally block of
\* voice_stream, which every failure and every close of the connection ends
\* in) leaves every other live connection as it was: its position, its two
\* WebSockets, its registry entry and the characters_used counted in it.
C29_TeardownLeavesOthers ==
    [][\A c \in PairConns, d \in PairConns :
          (c # d /\ Close(c) /\ Live(conn[d])) =>
              /\ conn'[d] = conn[d]
              /\ RegistryEntry(active_connections', conn'[d])
                     = RegistryEntry(active_connections, conn[d])]_vars

\* Every frame receive() returned on a connection was forwarded upstream
ForwardedAll(r) == Len(r.upstream_out) = Len(r.client_got)

\* C30: the usage meter has no effect on the control flow of the inbound
\* loop: two connections that received the same client frames, all of them
\* forwarded, have sent the same frames upstream and their loops have ended
\* or not alike, whatever is counted in the registry and whether or not the
\* registry holds an entry for them.
C30_MeterLeavesControlFlow ==
    \A c \in PairConns, d \in PairConns :
        (/\ conn[c].client_got # <<>>
         /\ conn[c].client_got = conn[d].client_got
         /\ ForwardedAll(conn[c])
         /\ ForwardedAll(conn[d]))
        => /\ conn[c].upstream_out = conn[d].upstream_out
           /\ conn[c].c2e = conn[d].c2e

(***************************************************************************)
(* Claims about the rate limit of the chat endpoint                        *)
(***************************************************************************)

\* C31: when the limiter denies a chat request, the wrapper answers 429
\* with the retry_after the limiter returned and chat is never invoked for
\* that request: the denying step reads and writes no session, and the
\* request stays answered, without a lookup, an update or a call of the AI
\* service.
C31_DeniedRequestNotHandled ==
    [][\A h \in Handlers :
          /\ (chat[h].pc = "idle" /\ chat'[h].pc # "idle" /\ ~lim_ret'.allowed) =>
                /\ chat'[h].pc = "rejected"
                /\ chat'[h].retry_after = lim_ret'.retry_after
                /\ chat'[h].session = {}
                /\ sessions' = sessions
                /\ bumped' = bumped
          /\ chat[h].pc = "rejected" => chat'[h] = chat[h]]_vars

\* A request for a stored session was denied while an admitted one of the
\* same client waits for the AI service.
C31_Witness ==
    \E h \in Handlers, g \in Handlers :
        /\ chat[h].pc = "rejected"
        /\ chat[h].retry_after >= 1
        /\ chat[h].session_id \in DOMAIN sessions
        /\ chat[g].pc = "awaiting"
        /\ chat[g].identifier = chat[h].identifier
        /\ bumped[chat[h].session_id] = sessions[chat[h].session_id].message_count

\* C32: the purge scan runs once every cleanup_threshold checks, rejected
\* ones counted like admitted ones: every check that returns moves
\* request_count one further, the check that brings it to cleanup_threshold
\* scans and resets it, and no other check removes a record; after a scan no
\* record is left that is empty or whose newest timestamp precedes the start
\* of the window of that check.
C32_PurgeEveryThresholdChecks ==
    [][\A identifier \in Identifiers :
          (Check(identifier) /\ ~lim_ret'.raised) =>
              LET scans == request_count + 1 >= CleanupThreshold
                  window_start == now - WindowTicks(window_seconds)
              IN  /\ request_count' = IF scans THEN 0 ELSE request_count + 1
                  /\ scans => \A i \in DOMAIN requests' :
                                 /\ requests'[i] # <<>>
                                 /\ SeqMax(requests'[i]) >= window_start
                  /\ ~scans => DOMAIN requests \subseteq DOMAIN requests']_vars

(***************************************************************************)
(* The limiter under callers that pass different windows, over unbounded    *)
(* time.  The clock of this specification is read relative to the present:  *)
(* datetime.now() is always tick Present, and a tick that passes moves      *)
(* every stored timestamp one tick back.  A timestamp that reaches 0 is     *)
(* older than every window a caller passes and stays at 0, so every         *)
(* comparison check_rate_limit makes comes out as on the real clock.        *)
(***************************************************************************)
\* The longer of the two window_seconds the callers pass.
LongWindow == 2

CallerWindows == {ShortWindow, LongWindow}

Present == WindowTicks(LongWindow) + 1

InitCallersSpec ==
    /\ now = Present
    /\ InitLimiter
    /\ StoreAtRest /\ RelayAtRest /\ HandlersAtRest

\* check_rate_limit(identifier, max_requests, window): window_seconds holds
\* the window of the latest call.
CheckWith(identifier, window) ==
    LET r == CheckRateLimit(requests, request_count, identifier,
                            max_requests, window, now)
    IN  /\ requests' = r.requests
        /\ request_count' = r.request_count
        /\ window_seconds' = window
        /\ lim_ret' = [op |-> "check", identifier |-> identifier, at |-> now,
                       raised |-> r.raised, allowed |-> r.allowed,
                       retry_after |-> r.retry_after]
        /\ UNCHANGED <<now, max_requests, admitted, store_vars, relay_vars, handler_vars>>

\* One tick passes.
Elapse ==
    /\ requests' = [i \in DOMAIN requests |->
                       [k \in 1..Len(requests[i]) |->
                           IF requests[i][k] > 0 THEN requests[i][k] - 1 ELSE 0]]
    /\ UNCHANGED <<now, request_count, max_requests, window_seconds, lim_ret, admitted,
                   store_vars, relay_vars, handler_vars>>

AnyCheck == \E identifier \in Identifiers, window \in CallerWindows :
                CheckWith(identifier, window)

NextCallers ==
    \/ AnyCheck
    \/ Elapse

SpecCallers == InitCallersSpec /\ [][NextCallers]_vars

\* Checks keep arriving and time keeps passing.
SpecCallersFair ==
    /\ SpecCallers
    /\ WF_vars(AnyCheck)
    /\ WF_vars(Elapse)

ChecksOf(identifier) == \E window \in CallerWindows : CheckWith(identifier, window)

\* C33: while checks keep arriving, an identifier that makes no further
\* requests does not stay in the table forever: either the identifier is
\* checked again and again, or from some time on it has no record.
C33_IdleIdentifierRemoved ==
    \A identifier \in Identifiers :
        \/ []<><<ChecksOf(identifier)>>_vars
        \/ <>[](identifier \notin DOMAIN requests)

\* The record of the identifier of the latest check, as that check left it.
CheckedRecord == IF lim_ret.identifier \in DOMAIN requests
                 THEN requests[lim_ret.identifier] ELSE <<>>

JustChecked == lim_ret # NoCall /\ lim_ret.at = now

\* C34 as stated: immediately after any check, admitted or rejected, every
\* timestamp in the record of the checked identifier is strictly greater than
\* now - window_seconds and not later than now.
C34_RecordStrictlyInsideWindow ==
    JustChecked =>
        \A ts \in Elems(CheckedRecord) :
            /\ ts > now - WindowTicks(window_seconds)
            /\ ts <= now

\* C34, amended: immediately after any check, admitted or rejected, every
\* timestamp in the record of the checked identifier is not later than now
\* and is either strictly greater than now - window_seconds or the timestamp
\* now of the check itself.
C34_RecordInsideWindow ==
    JustChecked =>
        \A ts \in Elems(CheckedRecord) :
            /\ ts > now - WindowTicks(window_seconds) \/ ts = now
            /\ ts <= now

\* The second of two admitted checks of an identifier under max_requests = 1:
\* the timestamp of the first had left the window and is gone from the record.
C34_Witness ==
    /\ JustChecked
    /\ lim_ret.allowed
    /\ window_seconds >= 1
    /\ max_requests = 1
    /\ request_count = 2
    /\ DOMAIN requests = {lim_ret.identifier}
    /\ CheckedRecord = <<now>>

\* C35: a connection is in the registry only once the inbound WebSocket is
\* accepted and the upstream handshake has succeeded: one that is still
\* connecting, or whose handshake failed, is not in active_connections.
C35_RegisteredOnlyAfterHandshake ==
    \A c \in Conns :
        Registered(c) =>
            /\ conn[c].client_state # "CONNECTING"
            /\ conn[c].upstream # "none"

(***************************************************************************)
(* The relay with a stored session whose code is blank, short, of exactly   *)
(* CodeLimit characters, or longer.                                         *)
(***************************************************************************)
PrimingCodes == {Repeat(" ", 2), Repeat("x", CodeLimit), Repeat("x", CodeLimit + 1)}

StoreWithCode ==
    /\ \E code \in PrimingCodes :
           sessions = [s \in {"s1"} |->
                          CodeSession("s1", [user_ip |-> "ip1", problem_id |-> "two-sum",
                                             problem_title |-> "Two Sum",
                                             current_code |-> code,
                                             language |-> "python", hint_level |-> 1], 0, 0)]
    /\ max_messages = MaxHistory
    /\ appended = [s \in SessionIds |-> <<>>]
    /\ swept = 0

InitRelayCodeSpec == InitClock /\ LimiterAtRest /\ StoreWithCode /\ InitRelay /\ HandlersAtRest

SpecRelayCode == InitRelayCodeSpec /\ [][NextRelay]_vars

\* The priming messages among the messages a connection has sent upstream.
Primings(r) == SelectSeq(r.upstream_out, LAMBDA m : m.context)

\* voice_stream is past the priming of the connection.
PastPriming(r) == r.pc \in {"sleeping", "relaying", "closing", "closed"}

\* What the claim says a priming message carries of the code.
CarriesSnippet(m, code) ==
    /\ Len(code) <= CodeLimit => m.code = code
    /\ Len(code) > CodeLimit => m.code = SubSeq(code, 1, CodeLimit) \o "..."

\* C36 as stated: a connection whose session_id resolves to a stored session
\* has sent exactly one priming message once it is past the priming, a
\* connection with no or an unknown session_id none; the message carries the
\* first 800 characters of current_code, followed by "..." exactly when the
\* code is longer.
C36_ExactlyOnePriming ==
    \A c \in Conns :
        /\ PastPriming(conn[c]) =>
               Len(Primings(conn[c])) = IF conn[c].session # {} THEN 1 ELSE 0
        /\ \A i \in 1..Len(Primings(conn[c])) :
               \A s \in conn[c].session :
                   Primings(conn[c])[i].has_code =>
                       CarriesSnippet(Primings(conn[c])[i], s.current_code)

\* C36, amended: a connection sends at most one priming message, as its first
\* message upstream, and none when session_id is absent or unknown; the
\* priming send of a connection whose session_id resolves to a stored session
\* leaves exactly one when it returns and none when it raises; the message
\* carries the first 800 characters of current_code, followed by "..."
\* exactly when the code is longer.
C36_OnePrimingUnlessSendFails ==
    /\ [](\A c \in Conns :
            /\ Len(Primings(conn[c])) <= 1
            /\ Primings(conn[c]) # <<>> => conn[c].upstream_out[1].context
            /\ conn[c].session = {} => Primings(conn[c]) = <<>>
            /\ conn[c].pc = "sleeping" => Len(Primings(conn[c])) = 1
            /\ \A i \in 1..Len(Primings(conn[c])) :
                   \A s \in conn[c].session :
                       Primings(conn[c])[i].has_code =>
                           CarriesSnippet(Primings(conn[c])[i], s.current_code))
    /\ [][\A c \in Conns :
            PrimeDone(c) =>
                Len(Primings(conn'[c])) = IF conn[c].upstream = "open" THEN 1 ELSE 0]_vars

\* A connection relays after a priming message that ends in the ellipsis.
C36_Witness ==
    \E c \in Conns :
        /\ conn[c].pc = "relaying"
        /\ Len(conn[c].upstream_out) >= 2
        /\ Len(Primings(conn[c])) = 1
        /\ Len(Primings(conn[c])[1].code) = CodeLimit + 3

\* What check of a forwarded text adds to characters_used: len of its text
\* field when json.loads gives an object.
CountedOf(text) ==
    LET data == JsonLoads(text)
    IN  IF data.valid /\ data.object THEN data.text_len ELSE 0

\* The sum of CountedOf over the texts the relay has forwarded in frames.
RECURSIVE ForwardedCharacters(_)
ForwardedCharacters(frames) ==
    IF frames = <<>> THEN 0
    ELSE LET frame == Head(frames)
         IN  (IF frame.type = "text" /\ "text" \in DOMAIN frame
              THEN CountedOf(frame.text) ELSE 0)
             + ForwardedCharacters(Tail(frames))

\* C37: the characters_used of a connection never decreases while the
\* connection is registered, and when voice_stream tears the connection down
\* it is the sum of the lengths of the text fields of the client text frames
\* forwarded upstream and of the upstream messages forwarded to the client.
C37_CharactersCounted ==
    [][\A c \in PairConns :
          \A before \in RegistryEntry(active_connections, conn[c]) :
              /\ (Live(conn[c]) /\ Live(conn'[c])) =>
                     \A after \in RegistryEntry(active_connections', conn'[c]) :
                         after.characters_used >= before.characters_used
              /\ Close(c) =>
                     before.characters_used =
                         ForwardedCharacters(conn[c].upstream_out)
                             + ForwardedCharacters(conn[c].client_out)]_vars

\* C38: the registry holds one entry for each connection that voice_stream
\* has registered and not yet torn down: two connections that are live at
\* the same time, also from the same address, never share an entry.
C38_OneEntryPerLiveConnection ==
    Cardinality(DOMAIN active_connections) =
        Cardinality({c \in PairConns : Live(conn[c])})

\* What a check of an identifier answers on a limiter table.
Outcome(reqs, identifier, window) ==
    LET r == CheckRateLimit(reqs, 0, identifier, max_requests, window, now)
    IN  <<r.raised, r.allowed, r.retry_after>>

\* The table a check leaves when its purge scan is left out.
Unpurged(identifier, window) ==
    LET window_start == now - WindowTicks(window)
        request_times == IF identifier \in DOMAIN requests
                         THEN requests[identifier] ELSE <<>>
    IN  DictSet(requests, identifier,
                AdmittedRecord(RecentRequests(request_times, window_start), now))

\* C39: the purge scan a check of one identifier runs never changes what a
\* later check of another identifier answers, whatever window_seconds the
\* caller of that later check passes: the scan removes only records that
\* hold no timestamp inside that window.
C39_PurgeLeavesOtherOutcomes ==
    [][\A identifier \in Identifiers, window \in CallerWindows :
          (CheckWith(identifier, window) /\ lim_ret'.allowed) =>
              \A other \in Identifiers \ {identifier}, later \in CallerWindows :
                  Outcome(requests', other, later)
                      = Outcome(Unpurged(identifier, window), other, later)]_vars

\* The error notices among the frames delivered to the client.
ErrorNotices(r) == SelectSeq(r.client_out, LAMBDA f : f.type = "error")

\* C40: when the priming send fails the failure is swallowed: the client
\* gets no error notice, the priming delay is skipped, and the connection
\* goes on to relay with both forwarding loops started, not to its teardown.
C40_PrimingFailureSwallowed ==
    [][\A c \in Conns :
          (PrimeDone(c) /\ conn[c].upstream # "open") =>
              /\ conn'[c].pc = "relaying"
              /\ conn'[c].c2e = "running"
              /\ conn'[c].e2c = "running"
              /\ conn'[c].client_out = conn[c].client_out
              /\ conn'[c].upstream_out = conn[c].upstream_out
              /\ active_connections' = active_connections]_vars

\* A connection with a stored session relays, both loops started, after a
\* priming send that failed: nothing went upstream, no notice to the client.
C40_Witness ==
    \E c \in Conns :
        /\ conn[c].pc = "relaying"
        /\ conn[c].session # {}
        /\ conn[c].upstream = "closed"
        /\ conn[c].upstream_out = <<>>
        /\ conn[c].c2e = "running" /\ conn[c].e2c = "running"
        /\ conn[c].client_peer = "open"
        /\ ErrorNotices(conn[c]) = <<>>
        /\ Registered(c)

====
